---- MODULE Spec2Model ----
(***************************************************************************)
(* Conversation state and personalization engine of EventChatBotBackend:   *)
(* the conversation-stage classifier, the proactive-question gate, the     *)
(* user-profile store and its cross-session merge.                         *)
(*                                                                         *)
(* Text is a sequence of characters.  An ASCII character is the one-letter *)
(* string itself; a CJK character is the string "uXXXX" of its code point  *)
(* (the comment above a keyword table gives the original text).            *)
(* Confidences and scores are counted in tenths (7 is 0.7, 10 is 1.0).     *)
(***************************************************************************)
EXTENDS Naturals, Integers, Sequences, FiniteSets, TLC

VARIABLES
    chat_history,   \* the turns handed to the stage classifier / the gate
    llm_reply,      \* outcome of the external text capability for this call
    stage,          \* value returned by analyze_conversation_stage
    user_message,   \* gate input: the user's message
    bot_response,   \* gate input: the handler's draft text
    gate,           \* value returned by should_ask_proactive_question
    profiles,       \* table user_profiles (sequence of rows, in id order)
    interests,      \* table user_interests (sequence of rows, in id order)
    preferences,    \* table user_preferences (sequence of rows, in id order)
    last_op,        \* the store operation performed last, with its arguments
    nops,           \* number of store operations performed
    merge_input,    \* the profile list handed to _integrate_profiles
    integrated,     \* value returned by _integrate_profiles
    intent,         \* value returned by analyze_user_intent
    traits,         \* the three JSON maps of each user_profiles row, by id
    behaviors,      \* table user_behaviors (sequence of rows, in id order)
    feedbacks,      \* table user_feedbacks (sequence of rows, in id order)
    analysis_reply, \* outcome of the capability for the profile analysis
    profile_data,   \* value returned by analyze_user_from_conversation
    failed_write,   \* the store operation of the last update that was refused
    requests,       \* the chat requests being served, by request number
    turn_pc,        \* where the turn of each request stands
    turn_log,       \* the requests in the order of their profile steps
    generation,     \* the arguments of generate_proactive_questions
    proactive,      \* value returned by generate_proactive_questions
    step,           \* where process_message stands in the turn
    calls,          \* the components process_message has called, in order
    direct_params,  \* the search_params argument of process_message
    draft,          \* the response dict returned by the handler
    turn_response,  \* the response dict process_message holds / returns
    recommendations, \* value returned by get_personalized_recommendations
    transition,     \* arguments and value of should_transition_stage
    chat_sessions,  \* table chat_sessions (sequence of rows, in id order)
    chat_messages,  \* table chat_messages (sequence of rows, in id order)
    session_call    \* the session operation performed last, with its value

vars == <<chat_history, llm_reply, stage, user_message, bot_response, gate,
          profiles, interests, preferences, last_op, nops,
          merge_input, integrated, intent,
          traits, behaviors, feedbacks, analysis_reply, profile_data, failed_write,
          requests, turn_pc, turn_log,
          generation, proactive, step, calls, direct_params, draft,
          turn_response, recommendations, transition,
          chat_sessions, chat_messages, session_call>>

stage_vars == <<chat_history, llm_reply, stage>>
gate_vars  == <<user_message, bot_response, gate>>
store_vars == <<profiles, interests, preferences, last_op, nops, traits, behaviors,
               feedbacks>>
merge_vars == <<merge_input, integrated>>
intent_vars == <<intent>>
analysis_vars == <<analysis_reply, profile_data>>
\* the variables of the components outside the four above
update_vars == <<failed_write>>
serving_vars == <<requests, turn_pc, turn_log>>
question_vars == <<generation, proactive>>
turn_vars == <<step, calls, direct_params, draft, turn_response>>
session_vars == <<chat_sessions, chat_messages, session_call>>
extra_vars == <<recommendations, transition, session_vars>>
agent_vars == <<question_vars, turn_vars, extra_vars>>
rest_vars == <<intent_vars, analysis_vars, update_vars, serving_vars, agent_vars>>

None == "None"

\* the pair (bool, reason) returned by should_ask_proactive_question
Decision(ask, reason) == [ask |-> ask, reason |-> reason]
NoDecision == Decision(FALSE, "not_called")

\* outcomes of client.chat.completions.create: a text, or an exception
ReplyText(content) == [kind |-> "text", content |-> content]
ReplyFailure(kind) == [kind |-> kind, content |-> <<>>]
NoReply == [kind |-> "not_called", content |-> <<>>]

\* a call of the store, as recorded in last_op
Op(name, session_id, arg) == [op |-> name, session_id |-> session_id, arg |-> arg]
OpArg(new_data, update_type, interest, confidence, preference_type, preference_values) ==
    [new_data |-> new_data, update_type |-> update_type, interest |-> interest,
     confidence |-> confidence, preference_type |-> preference_type,
     preference_values |-> preference_values]
NoPreferences ==
    [preferred_categories |-> <<>>, preferred_locations |-> <<>>,
     preferred_times |-> <<>>, group_preference |-> None,
     budget_sensitivity |-> None]
\* a JSON map with no key
EmptyMap == [k \in {} |-> ""]
\* the dict of an analysis, also the new_data of update_user_profile
NoData ==
    [interests |-> <<>>, activity_preferences |-> NoPreferences,
     personality_traits |-> EmptyMap, communication_style |-> EmptyMap,
     engagement_patterns |-> EmptyMap,
     behavior_type |-> None, feedback_type |-> None, feedback_value |-> None,
     rating |-> None]
NoArg == OpArg(NoData, "", "", 0, "", <<>>)
NoOp == Op("none", "none", NoArg)

\* the variables of a component that a specification leaves alone
StageIdle == chat_history = <<>> /\ llm_reply = NoReply /\ stage = None
GateIdle  == user_message = <<>> /\ bot_response = <<>> /\ gate = NoDecision
StoreIdle == profiles = <<>> /\ interests = <<>> /\ preferences = <<>>
             /\ last_op = NoOp /\ nops = 0
             /\ traits = <<>> /\ behaviors = <<>> /\ feedbacks = <<>>
\* the dict returned by _integrate_profiles; satisfaction_score is the pair
\* (sum, count) of its mean, count 0 standing for None
Integrated(visit_count, total_interactions, satisfaction_score, last_activity, interest_list, activity_preferences) ==
    [ session_id         |-> "integrated",
      visit_count        |-> visit_count,
      total_interactions |-> total_interactions,
      satisfaction_score |-> satisfaction_score,
      last_activity      |-> last_activity,
      interests          |-> interest_list,
      activity_preferences |-> activity_preferences ]
NoBuckets ==
    [preferred_categories |-> {}, preferred_locations |-> {},
     preferred_times |-> {}, group_preference |-> {}, budget_sensitivity |-> {}]
NotIntegrated ==
    [Integrated(0, 0, [sum |-> 0, count |-> 0], 0, <<>>, NoBuckets)
        EXCEPT !.session_id = "not_called"]
MergeIdle == merge_input = <<>> /\ integrated = NotIntegrated
\* the text of an intent not yet asked for
NoIntent == <<"not_called">>
IntentIdle == intent = NoIntent
\* the capability's outcome for the profile analysis: `kind` tells how the
\* call and json.loads ended, `result` is the parsed dict of an object
AnalysisReply(kind, result) == [kind |-> kind, result |-> result]
NoAnalysisReply == AnalysisReply("not_called", NoData)
\* the dict built by get_user_profile
ProfileData(session_id, visit_count, total_interactions, maps, interest_list, activity_preferences, recent_behaviors) ==
    [ session_id          |-> session_id,
      visit_count         |-> visit_count,
      total_interactions  |-> total_interactions,
      personality_traits  |-> maps.personality_traits,
      communication_style |-> maps.communication_style,
      engagement_patterns |-> maps.engagement_patterns,
      interests           |-> interest_list,
      activity_preferences |-> activity_preferences,
      recent_behaviors    |-> recent_behaviors ]
\* the three JSON columns of a profile row, at their default
NoTraits ==
    [personality_traits |-> EmptyMap, communication_style |-> EmptyMap,
     engagement_patterns |-> EmptyMap]
NoProfileData ==
    ProfileData("not_called", 0, 0, NoTraits, <<>>,
                [preferred_categories |-> <<>>, preferred_locations |-> <<>>,
                 preferred_times |-> <<>>,
                 group_preference |-> [is_list |-> FALSE, items |-> {}],
                 budget_sensitivity |-> [is_list |-> FALSE, items |-> {}]],
                <<>>)
AnalysisIdle == analysis_reply = NoAnalysisReply /\ profile_data = NoProfileData
UpdateIdle == failed_write = 0
ServingIdle == requests = <<>> /\ turn_pc = <<>> /\ turn_log = <<>>
\* nothing generated yet
NoQuestions == [questions |-> <<>>, question_type |-> None, confidence |-> 0,
                follow_up_suggestions |-> <<>>]
\* the keys of the context dict that the generators read; a key that is
\* absent reads as its default: [], {} and {}
Context(ambiguous_entities, current_search, last_search_results) ==
    [ ambiguous_entities |-> ambiguous_entities, current_search |-> current_search,
      last_search_results |-> last_search_results ]
NoContext == Context(<<>>, EmptyMap, EmptyMap)
NoGeneration == [context |-> NoContext, user_profile |-> NoProfileData,
                 conversation_stage |-> None]
\* the search_params of a request or of a response; "" where a key is absent
SearchParams(city, category) == [city |-> city, category |-> category]
NoSearchParams == SearchParams("", "")
\* response["user_profile_summary"]
Summary(visit_count, interest_names, total_interactions, last_activity) ==
    [ visit_count |-> visit_count, interests |-> interest_names,
      total_interactions |-> total_interactions, last_activity |-> last_activity ]
NoSummary == Summary(0, <<>>, 0, 0)
\* a response dict: the keys a handler sets and the keys process_message adds
Response(message, given_intent, success, search_params, events) ==
    [ message |-> message, intent |-> given_intent, success |-> success,
      search_params |-> search_params, events |-> events,
      proactive_questions |-> NoQuestions, user_profile_summary |-> NoSummary,
      conversation_stage |-> None ]
NoResponse == Response(<<>>, None, FALSE, NoSearchParams, <<>>)
\* the dict returned by get_personalized_recommendations; the confidence
\* is counted in hundredths
Recommendations(suggested_categories, suggested_locations, suggested_times, personalized_message, confidence) ==
    [ suggested_categories |-> suggested_categories,
      suggested_locations |-> suggested_locations,
      suggested_times |-> suggested_times,
      personalized_message |-> personalized_message, confidence |-> confidence ]
NoRecommendations == Recommendations(<<>>, <<>>, <<>>, None, 0)
\* a call of should_transition_stage and the pair it returned
Transition(current_stage, message, should, next_stage) ==
    [ current_stage |-> current_stage, user_message |-> message,
      should |-> should, stage |-> next_stage ]
NoTransition == Transition(None, <<>>, FALSE, None)
\* a call of a session operation; `returned` is the id of the row returned
SessionCall(name, ip_address, session_id, returned) ==
    [ op |-> name, ip_address |-> ip_address, session_id |-> session_id,
      returned |-> returned ]
NoSessionCall == SessionCall("none", None, None, 0)
QuestionIdle == generation = NoGeneration /\ proactive = NoQuestions
TurnIdle ==
    /\ step = "idle" /\ calls = <<>> /\ direct_params = NoSearchParams
    /\ draft = NoResponse /\ turn_response = NoResponse
SessionIdle ==
    chat_sessions = <<>> /\ chat_messages = <<>> /\ session_call = NoSessionCall
ExtraIdle ==
    recommendations = NoRecommendations /\ transition = NoTransition /\ SessionIdle
AgentIdle == QuestionIdle /\ TurnIdle /\ ExtraIdle
RestIdle == IntentIdle /\ AnalysisIdle /\ UpdateIdle /\ ServingIdle /\ AgentIdle

(***************************************************************************)
(* Bounds of the model.                                                    *)
(***************************************************************************)
MaxFill == 12   \* neutral turns in front of the sampled last turns
MaxTail == 2    \* sampled last turns of a history

(***************************************************************************)
(* Text primitives: str.lower, str.strip, the `in` substring test.         *)
(***************************************************************************)
\* the lower-case form of each upper-case ASCII letter
lower_of ==
    [ A |-> "a", B |-> "b", C |-> "c", D |-> "d", E |-> "e", F |-> "f",
      G |-> "g", H |-> "h", I |-> "i", J |-> "j", K |-> "k", L |-> "l",
      M |-> "m", N |-> "n", O |-> "o", P |-> "p", Q |-> "q", R |-> "r",
      S |-> "s", T |-> "t", U |-> "u", V |-> "v", W |-> "w", X |-> "x",
      Y |-> "y", Z |-> "z" ]

LowerChar(c) == IF c \in DOMAIN lower_of THEN lower_of[c] ELSE c

\* str.lower()
Lower(s) == [i \in DOMAIN s |-> LowerChar(s[i])]

whitespace == {" ", "\t", "\n", "\r"}

\* str.strip()
Strip(s) ==
    LET keep == {i \in DOMAIN s : s[i] \notin whitespace}
    IN  IF keep = {} THEN <<>>
        ELSE LET lo == CHOOSE i \in keep : \A j \in keep : i <= j
                 hi == CHOOSE i \in keep : \A j \in keep : j <= i
             IN  SubSeq(s, lo, hi)

\* `kw in s` on strings
Contains(s, kw) ==
    \E i \in 0..(Len(s) - Len(kw)) :
        \A j \in 1..Len(kw) : s[i + j] = kw[j]

\* any(keyword in s for keyword in keywords)
AnyIn(keywords, s) == \E kw \in keywords : Contains(s, kw)

(***************************************************************************)
(* Conversation stages (services/conversation_stage_service.py).           *)
(***************************************************************************)
valid_stages ==
    {"opening", "exploring", "clarifying", "searching", "recommending",
     "deciding", "closing"}

\* the spelling of each stage name, for comparing it with the reply text
stage_text ==
    [ opening      |-> <<"o", "p", "e", "n", "i", "n", "g">>,
      exploring    |-> <<"e", "x", "p", "l", "o", "r", "i", "n", "g">>,
      clarifying   |-> <<"c", "l", "a", "r", "i", "f", "y", "i", "n", "g">>,
      searching    |-> <<"s", "e", "a", "r", "c", "h", "i", "n", "g">>,
      recommending |-> <<"r", "e", "c", "o", "m", "m", "e", "n", "d", "i", "n", "g">>,
      deciding     |-> <<"d", "e", "c", "i", "d", "i", "n", "g">>,
      closing      |-> <<"c", "l", "o", "s", "i", "n", "g">> ]

\* 你好 hello hi 嗨 您好 開始 幫助
opening_keywords ==
    { <<"u4f60", "u597d">>,
      <<"h", "e", "l", "l", "o">>,
      <<"h", "i">>,
      <<"u55e8">>,
      <<"u60a8", "u597d">>,
      <<"u958b", "u59cb">>,
      <<"u5e6b", "u52a9">> }

\* 喜歡 想要 偏好 興趣 類型 什麼樣 推薦
exploring_keywords ==
    { <<"u559c", "u6b61">>,
      <<"u60f3", "u8981">>,
      <<"u504f", "u597d">>,
      <<"u8208", "u8da3">>,
      <<"u985e", "u578b">>,
      <<"u4ec0", "u9ebc", "u6a23">>,
      <<"u63a8", "u85a6">> }

\* 具體 詳細 確認 是否 對嗎 正確嗎 意思是
clarifying_keywords ==
    { <<"u5177", "u9ad4">>,
      <<"u8a73", "u7d30">>,
      <<"u78ba", "u8a8d">>,
      <<"u662f", "u5426">>,
      <<"u5c0d", "u55ce">>,
      <<"u6b63", "u78ba", "u55ce">>,
      <<"u610f", "u601d", "u662f">> }

\* 搜尋 查找 找 活動 事件 搜索
searching_keywords ==
    { <<"u641c", "u5c0b">>,
      <<"u67e5", "u627e">>,
      <<"u627e">>,
      <<"u6d3b", "u52d5">>,
      <<"u4e8b", "u4ef6">>,
      <<"u641c", "u7d22">> }

\* 推薦 建議 適合 可以試試 為您找到
recommending_keywords ==
    { <<"u63a8", "u85a6">>,
      <<"u5efa", "u8b70">>,
      <<"u9069", "u5408">>,
      <<"u53ef", "u4ee5", "u8a66", "u8a66">>,
      <<"u70ba", "u60a8", "u627e", "u5230">> }

\* 考慮 想想 決定 選擇 報名 參加 不錯 感興趣
deciding_keywords ==
    { <<"u8003", "u616e">>,
      <<"u60f3", "u60f3">>,
      <<"u6c7a", "u5b9a">>,
      <<"u9078", "u64c7">>,
      <<"u5831", "u540d">>,
      <<"u53c3", "u52a0">>,
      <<"u4e0d", "u932f">>,
      <<"u611f", "u8208", "u8da3">> }

\* 謝謝 再見 結束 不用了 夠了 bye
closing_keywords ==
    { <<"u8b1d", "u8b1d">>,
      <<"u518d", "u898b">>,
      <<"u7d50", "u675f">>,
      <<"u4e0d", "u7528", "u4e86">>,
      <<"u5920", "u4e86">>,
      <<"b", "y", "e">> }

\* [msg.get("content", "").lower() for msg in chat_history if msg.get("role") == role]
ContentsOf(history, role) ==
    LET HasRole(msg) == msg.role = role
        selected == SelectSeq(history, HasRole)
    IN  [i \in DOMAIN selected |-> Lower(selected[i].content)]

\* messages[-1] if messages else ""
LastOrEmpty(messages) ==
    IF Len(messages) > 0 THEN messages[Len(messages)] ELSE <<>>

\* the length heuristic that closes _rule_based_stage_analysis
StageByLength(conversation_length) ==
    IF conversation_length <= 4 THEN "exploring"
    ELSE IF conversation_length <= 8 THEN "clarifying"
    ELSE IF conversation_length <= 12 THEN "searching"
    ELSE "recommending"

\* mutation: the searching test placed in front of the closing test
KeywordStageSearchFirst(last_user_message, last_bot_message) ==
    IF AnyIn(searching_keywords, last_user_message) THEN "searching"
    ELSE IF AnyIn(closing_keywords, last_user_message) THEN "closing"
    ELSE IF AnyIn(recommending_keywords, last_bot_message) THEN "recommending"
    ELSE IF AnyIn(deciding_keywords, last_user_message) THEN "deciding"
    ELSE IF AnyIn(clarifying_keywords, last_user_message) THEN "clarifying"
    ELSE IF AnyIn(exploring_keywords, last_user_message) THEN "exploring"
    ELSE IF AnyIn(opening_keywords, last_user_message) THEN "opening"
    ELSE None

\* the keyword tests of _rule_based_stage_analysis, in the order of the code;
\* None when no family matches
KeywordStage(last_user_message, last_bot_message) ==
    IF AnyIn(closing_keywords, last_user_message) THEN "closing"
    ELSE IF AnyIn(searching_keywords, last_user_message) THEN "searching"
    ELSE IF AnyIn(recommending_keywords, last_bot_message) THEN "recommending"
    ELSE IF AnyIn(deciding_keywords, last_user_message) THEN "deciding"
    ELSE IF AnyIn(clarifying_keywords, last_user_message) THEN "clarifying"
    ELSE IF AnyIn(exploring_keywords, last_user_message) THEN "exploring"
    ELSE IF AnyIn(opening_keywords, last_user_message) THEN "opening"
    ELSE None

_rule_based_stage_analysis(history) ==
    LET conversation_length == Len(history)
        last_user_message == LastOrEmpty(ContentsOf(history, "user"))
        last_bot_message  == LastOrEmpty(ContentsOf(history, "assistant"))
        by_keyword == KeywordStage(last_user_message, last_bot_message)
    IN  IF conversation_length = 0 THEN "opening"
        ELSE IF conversation_length <= 2 THEN "opening"
        ELSE IF by_keyword # None THEN by_keyword
        ELSE StageByLength(conversation_length)


\* mutation: the reply is trusted without the membership test
AnalyzeUnvalidated(history, reply) ==
    IF Len(history) = 0 THEN "opening"
    ELSE IF Len(history) <= 2 THEN "opening"
    ELSE IF reply.kind = "text"
         THEN LET label == Lower(Strip(reply.content))
              IN  IF \E s \in valid_stages : stage_text[s] = label
                  THEN CHOOSE s \in valid_stages : stage_text[s] = label
                  ELSE "unknown"
         ELSE _rule_based_stage_analysis(history)

\* mutation: the classifier is asked before the length of the history is looked at
AnalyzeReplyFirst(history, reply) ==
    IF Len(history) = 0 THEN "opening"
    ELSE IF reply.kind = "text"
         THEN LET label == Lower(Strip(reply.content))
              IN  IF \E s \in valid_stages : stage_text[s] = label
                  THEN CHOOSE s \in valid_stages : stage_text[s] = label
                  ELSE _rule_based_stage_analysis(history)
         ELSE _rule_based_stage_analysis(history)

analyze_conversation_stage(history, reply) ==
    IF Len(history) = 0 THEN "opening"
    ELSE IF Len(history) <= 2 THEN "opening"
    ELSE IF reply.kind = "text"
         THEN LET label == Lower(Strip(reply.content))
              IN  IF \E s \in valid_stages : stage_text[s] = label
                  THEN CHOOSE s \in valid_stages : stage_text[s] = label
                  ELSE _rule_based_stage_analysis(history)
         ELSE _rule_based_stage_analysis(history)   \* both except clauses

(***************************************************************************)
(* Sampled texts, turns, histories and classifier replies.                 *)
(***************************************************************************)
\* 嗯
txt_neutral == <<"u55ef">>
\* Hello
txt_Hello == <<"H", "e", "l", "l", "o">>
\* 找
txt_find == <<"u627e">>
\* Bye
txt_Bye == <<"B", "y", "e">>
\* 謝謝找
txt_thanks_find == <<"u8b1d", "u8b1d", "u627e">>
\* 找不錯
txt_find_notbad == <<"u627e", "u4e0d", "u932f">>
\* 不錯確認
txt_notbad_confirm == <<"u4e0d", "u932f", "u78ba", "u8a8d">>
\* 確認喜歡
txt_confirm_like == <<"u78ba", "u8a8d", "u559c", "u6b61">>
\* 喜歡hello
txt_like_hello == <<"u559c", "u6b61", "h", "e", "l", "l", "o">>
\* 建議
txt_suggest == <<"u5efa", "u8b70">>

Turn(role, content) == [role |-> role, content |-> content]

StageUserTexts ==
    { <<>>, txt_neutral, txt_Hello, txt_Bye, txt_thanks_find, txt_find_notbad,
      txt_notbad_confirm, txt_confirm_like, txt_like_hello }

StageBotTexts == { txt_neutral, txt_suggest }

StageTurns ==
    {Turn("user", t) : t \in StageUserTexts}
        \cup {Turn("assistant", t) : t \in StageBotTexts}
        \cup {Turn("system", txt_find)}

\* n neutral turns, user and assistant alternating
Filler(n) ==
    [i \in 1..n |-> Turn(IF i % 2 = 1 THEN "user" ELSE "assistant", txt_neutral)]

StageHistories ==
    { Filler(n) \o tail :
        n \in 0..MaxFill,
        tail \in UNION {[1..k -> StageTurns] : k \in 0..MaxTail} }

StageReplies ==
    {ReplyText(stage_text[s]) : s \in {"opening", "deciding"}}
        \cup { ReplyText(<<" ", "C", "l", "o", "s", "i", "n", "g", "\n">>),
               ReplyText(<<"u", "n", "k", "n", "o", "w", "n">>),
               ReplyText(<<"o", "p", "e", "n", "i", "n", "g", ".">>),
               ReplyFailure("timeout"),
               ReplyFailure("connection_error"),
               ReplyFailure("error") }

(***************************************************************************)
(* Specification of the stage classifier: a history is drawn, then the     *)
(* classifier is called once with some outcome of the text capability.     *)
(***************************************************************************)

StageInit ==
    /\ chat_history \in StageHistories
    /\ llm_reply = NoReply
    /\ stage = None
    /\ GateIdle /\ StoreIdle /\ MergeIdle /\ RestIdle

AnalyzeStage(reply) ==
    /\ stage = None
    /\ llm_reply' = reply
    /\ stage' = analyze_conversation_stage(chat_history, reply)
    /\ UNCHANGED <<chat_history, gate_vars, store_vars, merge_vars, rest_vars>>

StageNext == \E reply \in StageReplies : AnalyzeStage(reply)

SpecStage == StageInit /\ [][StageNext]_vars

\* the reply carries no usable label: an exception, or a text that is not a
\* stage name once trimmed and lower-cased
ReplyUnusable(reply) ==
    \/ reply.kind # "text"
    \/ \A s \in valid_stages : stage_text[s] # Lower(Strip(reply.content))

C2_StageInClosedSet ==
    /\ _rule_based_stage_analysis(chat_history) \in valid_stages
    /\ stage # None =>
        /\ stage \in valid_stages
        /\ ReplyUnusable(llm_reply) =>
               stage = _rule_based_stage_analysis(chat_history)

\* a label outside the closed set was answered for a long history
C2_Witness ==
    /\ stage \in valid_stages
    /\ Len(chat_history) > 2
    /\ llm_reply = ReplyText(<<"u", "n", "k", "n", "o", "w", "n">>)

\* the text of the last turn of a role, lower-cased ("" when there is none)
LastTextOf(history, role) ==
    LET idx == {i \in DOMAIN history : history[i].role = role}
    IN  IF idx = {} THEN <<>>
        ELSE Lower(history[CHOOSE i \in idx : \A j \in idx : j <= i].content)

\* C3: for a history longer than 2 turns the rule-based fallback is the
\* decision list closing > searching > recommending (assistant text) >
\* deciding > clarifying > exploring > opening, then the turn-count
\* heuristic; the same holds for the value the classifier returns when the
\* capability fails.
C3_FallbackDecisionList ==
    Len(chat_history) > 2 =>
        LET u == LastTextOf(chat_history, "user")
            b == LastTextOf(chat_history, "assistant")
            n == Len(chat_history)
            r == _rule_based_stage_analysis(chat_history)
            clo == AnyIn(closing_keywords, u)
            sea == AnyIn(searching_keywords, u)
            rec == AnyIn(recommending_keywords, b)
            dec == AnyIn(deciding_keywords, u)
            cla == AnyIn(clarifying_keywords, u)
            exl == AnyIn(exploring_keywords, u)
            ope == AnyIn(opening_keywords, u)
        IN  /\ clo => r = "closing"
            /\ (~clo /\ sea) => r = "searching"
            /\ (~clo /\ ~sea /\ rec) => r = "recommending"
            /\ (~clo /\ ~sea /\ ~rec /\ dec) => r = "deciding"
            /\ (~clo /\ ~sea /\ ~rec /\ ~dec /\ cla) => r = "clarifying"
            /\ (~clo /\ ~sea /\ ~rec /\ ~dec /\ ~cla /\ exl) => r = "exploring"
            /\ (~clo /\ ~sea /\ ~rec /\ ~dec /\ ~cla /\ ~exl /\ ope) => r = "opening"
            /\ (~clo /\ ~sea /\ ~rec /\ ~dec /\ ~cla /\ ~exl /\ ~ope) =>
                   /\ n <= 4 => r = "exploring"
                   /\ (4 < n /\ n <= 8) => r = "clarifying"
                   /\ (8 < n /\ n <= 12) => r = "searching"
                   /\ 12 < n => r = "recommending"
            /\ (stage # None /\ llm_reply.kind # "text") => stage = r

\* the capability timed out on a long history whose last user text holds a
\* closing and a searching keyword: the earlier family won
C3_Witness ==
    /\ Len(chat_history) > 12
    /\ llm_reply = ReplyFailure("timeout")
    /\ stage = "closing"
    /\ AnyIn(searching_keywords, LastTextOf(chat_history, "user"))

(***************************************************************************)
(* Proactive gating (services/proactive_questioning_service.py).           *)
(***************************************************************************)
\* 不知道 隨便 都可以 看看 沒想法 不確定
vague_indicators ==
    { <<"u4e0d", "u77e5", "u9053">>,
      <<"u96a8", "u4fbf">>,
      <<"u90fd", "u53ef", "u4ee5">>,
      <<"u770b", "u770b">>,
      <<"u6c92", "u60f3", "u6cd5">>,
      <<"u4e0d", "u78ba", "u5b9a">> }

\* 不錯 有趣 看起來 感覺 好像
interest_indicators ==
    { <<"u4e0d", "u932f">>,
      <<"u6709", "u8da3">>,
      <<"u770b", "u8d77", "u4f86">>,
      <<"u611f", "u89ba">>,
      <<"u597d", "u50cf">> }

\* 什麼 如何 怎麼 為什麼 哪裡 哪個
open_questions ==
    { <<"u4ec0", "u9ebc">>,
      <<"u5982", "u4f55">>,
      <<"u600e", "u9ebc">>,
      <<"u70ba", "u4ec0", "u9ebc">>,
      <<"u54ea", "u88e1">>,
      <<"u54ea", "u500b">> }

\* 搜尋結果
search_result_marker == <<"u641c", "u5c0b", "u7d50", "u679c">>

\* the reasons returned with the decision:
\*   needs_guidance       用戶回應簡短，需要更多引導
\*   needs_clarification  用戶需求模糊，需要澄清
\*   needs_follow_through 提供搜尋結果後需要引導用戶
\*   can_deepen_interest  用戶表達興趣，可以深入探索
\*   stalled              對話停滯，需要新的方向
\*   open_question        用戶提出開放性問題，可以提供更多選項
\*   flowing_normally     當前對話流暢，無需主動提問
\* (Decision, the pair returned, is defined with the variables above)

\* str.split(): the maximal runs of non-whitespace characters
Split(s) ==
    LET F[i \in 0..Len(s)] ==
            IF i = 0 THEN [words |-> <<>>, cur |-> <<>>]
            ELSE LET p == F[i - 1]
                 IN  IF s[i] \in whitespace
                     THEN IF p.cur = <<>> THEN p
                          ELSE [words |-> Append(p.words, p.cur), cur |-> <<>>]
                     ELSE [words |-> p.words, cur |-> Append(p.cur, s[i])]
        end == F[Len(s)]
    IN  IF end.cur = <<>> THEN end.words ELSE Append(end.words, end.cur)

\* all_words.extend(content.split()) over the messages' lower-cased contents
AllWords(user_messages) ==
    LET F[i \in 0..Len(user_messages)] ==
            IF i = 0 THEN <<>>
            ELSE F[i - 1] \o Split(Lower(user_messages[i].content))
    IN  F[Len(user_messages)]

\* mutation: the repetition ratio must exceed 0.8
RepetitionAboveEightTenths(all_words) ==
    LET unique_words == {all_words[i] : i \in DOMAIN all_words}
    IN  10 * (Len(all_words) - Cardinality(unique_words)) > 8 * Len(all_words)

\* 1 - len(unique_words) / len(all_words) > 0.6, in exact arithmetic
RepetitionAbove(all_words) ==
    LET unique_words == {all_words[i] : i \in DOMAIN all_words}
    IN  10 * (Len(all_words) - Cardinality(unique_words)) > 6 * Len(all_words)

_is_conversation_stagnant(user_messages) ==
    IF Len(user_messages) < 2 THEN FALSE
    ELSE LET all_words == AllWords(user_messages)
         IN  IF Len(all_words) = 0 THEN TRUE
             ELSE RepetitionAbove(all_words)

\* conversation_history[-4:]
LastFour(conversation_history) ==
    SubSeq(conversation_history,
           IF Len(conversation_history) > 4 THEN Len(conversation_history) - 3 ELSE 1,
           Len(conversation_history))

IsUserTurn(msg) == msg.role = "user"

\* case 5 of should_ask_proactive_question
StagnationCase(conversation_history) ==
    /\ Len(conversation_history) > 6
    /\ LET user_messages == SelectSeq(LastFour(conversation_history), IsUserTurn)
       IN  /\ Len(user_messages) >= 2
           /\ _is_conversation_stagnant(user_messages)

\* mutation: the tentative-interest test placed in front of the vagueness test
ShouldAskInterestFirst(message, response, conversation_history) ==
    LET user_message_lower == Lower(message)
    IN  IF Len(Strip(message)) < 10 THEN Decision(TRUE, "needs_guidance")
        ELSE IF AnyIn(interest_indicators, user_message_lower)
             THEN Decision(TRUE, "can_deepen_interest")
        ELSE IF AnyIn(vague_indicators, user_message_lower)
             THEN Decision(TRUE, "needs_clarification")
        ELSE IF Contains(response, search_result_marker) /\ ~Contains(response, <<"?">>)
             THEN Decision(TRUE, "needs_follow_through")
        ELSE IF StagnationCase(conversation_history)
             THEN Decision(TRUE, "stalled")
        ELSE IF AnyIn(open_questions, message)
             THEN Decision(TRUE, "open_question")
        ELSE Decision(FALSE, "flowing_normally")

\* mutation: the follow-through test placed in front of the vagueness test
ShouldAskFollowThroughFirst(message, response, conversation_history) ==
    LET user_message_lower == Lower(message)
    IN  IF Len(Strip(message)) < 10 THEN Decision(TRUE, "needs_guidance")
        ELSE IF Contains(response, search_result_marker) /\ ~Contains(response, <<"?">>)
             THEN Decision(TRUE, "needs_follow_through")
        ELSE IF AnyIn(vague_indicators, user_message_lower)
             THEN Decision(TRUE, "needs_clarification")
        ELSE IF AnyIn(interest_indicators, user_message_lower)
             THEN Decision(TRUE, "can_deepen_interest")
        ELSE IF StagnationCase(conversation_history)
             THEN Decision(TRUE, "stalled")
        ELSE IF AnyIn(open_questions, message)
             THEN Decision(TRUE, "open_question")
        ELSE Decision(FALSE, "flowing_normally")

\* mutation: the length of the message is taken without strip()
ShouldAskRawLength(message, response, conversation_history) ==
    LET user_message_lower == Lower(message)
    IN  IF Len(message) < 10 THEN Decision(TRUE, "needs_guidance")
        ELSE IF AnyIn(vague_indicators, user_message_lower)
             THEN Decision(TRUE, "needs_clarification")
        ELSE IF Contains(response, search_result_marker) /\ ~Contains(response, <<"?">>)
             THEN Decision(TRUE, "needs_follow_through")
        ELSE IF AnyIn(interest_indicators, user_message_lower)
             THEN Decision(TRUE, "can_deepen_interest")
        ELSE IF StagnationCase(conversation_history)
             THEN Decision(TRUE, "stalled")
        ELSE IF AnyIn(open_questions, message)
             THEN Decision(TRUE, "open_question")
        ELSE Decision(FALSE, "flowing_normally")

should_ask_proactive_question(message, response, conversation_history) ==
    LET user_message_lower == Lower(message)
    IN  IF Len(Strip(message)) < 10 THEN Decision(TRUE, "needs_guidance")
        ELSE IF AnyIn(vague_indicators, user_message_lower)
             THEN Decision(TRUE, "needs_clarification")
        ELSE IF Contains(response, search_result_marker) /\ ~Contains(response, <<"?">>)
             THEN Decision(TRUE, "needs_follow_through")
        ELSE IF AnyIn(interest_indicators, user_message_lower)
             THEN Decision(TRUE, "can_deepen_interest")
        ELSE IF StagnationCase(conversation_history)
             THEN Decision(TRUE, "stalled")
        ELSE IF AnyIn(open_questions, message)
             THEN Decision(TRUE, "open_question")
        ELSE Decision(FALSE, "flowing_normally")

(***************************************************************************)
(* Sampled gate inputs.                                                    *)
(***************************************************************************)
\* 'hello' (5 characters)
msg_hello == <<"h", "e", "l", "l", "o">>
\* '  hello     ' (12 characters, 5 once stripped)
msg_padded_hello == <<" ", " ", "h", "e", "l", "l", "o", " ", " ", " ", " ", " ">>
\* '  隨便        ' (12 characters, 2 once stripped)
msg_padded_vague == <<" ", " ", "u96a8", "u4fbf", " ", " ", " ", " ", " ", " ", " ", " ">>
\* '隨便' (2)
msg_short_vague == <<"u96a8", "u4fbf">>
\* '我想去台北玩一下吧' (9)
msg_nine == <<"u6211", "u60f3", "u53bb", "u53f0", "u5317", "u73a9", "u4e00", "u4e0b", "u5427">>
\* '我想去台北玩一下吧嗯' (10)
msg_plain == <<"u6211", "u60f3", "u53bb", "u53f0", "u5317", "u73a9", "u4e00", "u4e0b", "u5427", "u55ef">>
\* '我想去台北玩隨便都好' (10)
msg_vague == <<"u6211", "u60f3", "u53bb", "u53f0", "u5317", "u73a9", "u96a8", "u4fbf", "u90fd", "u597d">>
\* '隨便不錯我想去台北玩' (10)
msg_vague_nice == <<"u96a8", "u4fbf", "u4e0d", "u932f", "u6211", "u60f3", "u53bb", "u53f0", "u5317", "u73a9">>
\* '我想去台北玩感覺很好' (10)
msg_nice == <<"u6211", "u60f3", "u53bb", "u53f0", "u5317", "u73a9", "u611f", "u89ba", "u5f88", "u597d">>
\* '感覺要去台北玩什麼呢' (10)
msg_nice_what == <<"u611f", "u89ba", "u8981", "u53bb", "u53f0", "u5317", "u73a9", "u4ec0", "u9ebc", "u5462">>
\* '我想去台北玩什麼好呢' (10)
msg_what == <<"u6211", "u60f3", "u53bb", "u53f0", "u5317", "u73a9", "u4ec0", "u9ebc", "u597d", "u5462">>
\* '好的' (2)
draft_plain == <<"u597d", "u7684">>
\* '搜尋結果如下' (6)
draft_results == <<"u641c", "u5c0b", "u7d50", "u679c", "u5982", "u4e0b">>
\* '搜尋結果如下?' (7)
draft_results_asked == <<"u641c", "u5c0b", "u7d50", "u679c", "u5982", "u4e0b", "?">>
\* '搜尋結果如下？' (7, the question mark is the full-width U+FF1F)
draft_results_fullwidth == <<"u641c", "u5c0b", "u7d50", "u679c", "u5982", "u4e0b", "uff1f">>
\* '活動 活動 活動'
say_event3 == <<"u6d3b", "u52d5", " ", "u6d3b", "u52d5", " ", "u6d3b", "u52d5">>
\* '活動 活動'
say_event2 == <<"u6d3b", "u52d5", " ", "u6d3b", "u52d5">>
\* '找 找'
say_find2 == <<"u627e", " ", "u627e">>
\* '台北 音樂'
say_ab == <<"u53f0", "u5317", " ", "u97f3", "u6a02">>
\* '週末 展覽'
say_cd == <<"u9031", "u672b", " ", "u5c55", "u89bd">>
\* ' '
say_blank == <<" ">>

GateMessages ==
    { msg_hello, msg_padded_hello, msg_padded_vague, msg_short_vague, msg_nine, msg_plain,
      msg_vague, msg_vague_nice, msg_nice, msg_nice_what, msg_what }

GateDrafts ==
    { draft_plain, draft_results, draft_results_asked, draft_results_fullwidth }

\* the last four turns: two user turns around assistant turns
RecentTurns(first, second) ==
    << Turn("user", first), Turn("assistant", txt_neutral),
       Turn("user", second), Turn("assistant", txt_neutral) >>

GateTails ==
    { <<>>,
      RecentTurns(say_event3, say_event2),     \* 5 words, 1 distinct: 0.8
      RecentTurns(say_event3, say_find2),      \* 5 words, 2 distinct: 0.6
      RecentTurns(say_ab, say_cd),             \* 4 words, 4 distinct: 0.0
      RecentTurns(<<>>, say_blank),            \* no word at all
      << Turn("assistant", txt_neutral), Turn("assistant", txt_neutral),
         Turn("user", say_event3), Turn("assistant", txt_neutral) >> }

GateHistories == { Filler(n) \o tail : n \in 0..MaxFill, tail \in GateTails }

(***************************************************************************)
(* Specification of the gate: its three inputs are drawn, then it is       *)
(* called once.                                                            *)
(***************************************************************************)
GateInit ==
    /\ chat_history \in GateHistories
    /\ user_message \in GateMessages
    /\ bot_response \in GateDrafts
    /\ gate = NoDecision
    /\ llm_reply = NoReply /\ stage = None
    /\ StoreIdle /\ MergeIdle /\ RestIdle

ShouldAsk ==
    /\ gate = NoDecision
    /\ gate' = should_ask_proactive_question(user_message, bot_response, chat_history)
    /\ UNCHANGED <<chat_history, llm_reply, stage, user_message, bot_response,
                   store_vars, merge_vars, rest_vars>>

GateNext == ShouldAsk

SpecGate == GateInit /\ [][GateNext]_vars

\* the user texts among the last four turns of the history
RecentUserTexts ==
    LET n == Len(chat_history)
        idx == {i \in DOMAIN chat_history : i > n - 4 /\ chat_history[i].role = "user"}
    IN  [i \in idx |-> Lower(chat_history[i].content)]

\* the (turn, position) pairs at which the recent user texts hold a word, and
\* the distinct words found there
RecentWordSlots ==
    UNION { {<<i, k>> : k \in 1..Len(Split(RecentUserTexts[i]))} :
                i \in DOMAIN RecentUserTexts }
RecentWords == {Split(RecentUserTexts[sl[1]])[sl[2]] : sl \in RecentWordSlots}

\* the six triggers, as the specification words them
Trigger1 == Len(Strip(user_message)) < 10
Trigger2 == AnyIn(vague_indicators, Lower(user_message))
Trigger3 == Contains(bot_response, search_result_marker)
            /\ \A i \in DOMAIN bot_response : bot_response[i] # "?"
Trigger4 == AnyIn(interest_indicators, Lower(user_message))
Trigger5_LastFour ==
    /\ Cardinality(DOMAIN RecentUserTexts) >= 2
    /\ Cardinality(RecentWordSlots) > 0
    /\ 10 * (Cardinality(RecentWordSlots) - Cardinality(RecentWords))
           > 6 * Cardinality(RecentWordSlots)
Trigger6 == AnyIn(open_questions, user_message)

\* trigger 5 as the code evaluates it: only for a history of more than 6
\* turns, and also when the recent user texts hold no word at all
Trigger5_Guarded ==
    /\ Len(chat_history) > 6
    /\ Cardinality(DOMAIN RecentUserTexts) >= 2
    /\ \/ Cardinality(RecentWordSlots) = 0
       \/ 10 * (Cardinality(RecentWordSlots) - Cardinality(RecentWords))
              > 6 * Cardinality(RecentWordSlots)

FirstTrue(t1, t2, t3, t4, t5, t6) ==
    IF t1 THEN Decision(TRUE, "needs_guidance")
    ELSE IF t2 THEN Decision(TRUE, "needs_clarification")
    ELSE IF t3 THEN Decision(TRUE, "needs_follow_through")
    ELSE IF t4 THEN Decision(TRUE, "can_deepen_interest")
    ELSE IF t5 THEN Decision(TRUE, "stalled")
    ELSE IF t6 THEN Decision(TRUE, "open_question")
    ELSE Decision(FALSE, "flowing_normally")

NoEarlierTrigger == ~Trigger1 /\ ~Trigger2 /\ ~Trigger3 /\ ~Trigger4

\* C11 as stated: whenever the last 4 turns hold at least 2 user messages
\* whose words repeat more than 0.6, the gate answers true, with the
\* stagnation reason when no earlier trigger holds, for a history of any
\* length.
C11_StagnationFires_AsStated ==
    (gate # NoDecision /\ Trigger5_LastFour) =>
        /\ gate.ask
        /\ NoEarlierTrigger => gate = Decision(TRUE, "stalled")

\* C11 amended: the same, for a history of more than 6 turns.
C11_StagnationFires ==
    (gate # NoDecision /\ Len(chat_history) > 6 /\ Trigger5_LastFour) =>
        /\ gate.ask
        /\ NoEarlierTrigger => gate = Decision(TRUE, "stalled")

\* an 8-turn history whose recent user turns repeat one word was found stalled
C11_Witness ==
    /\ Len(chat_history) = 8
    /\ Cardinality(DOMAIN RecentUserTexts) = 2
    /\ Cardinality(RecentWords) = 1
    /\ NoEarlierTrigger
    /\ gate = Decision(TRUE, "stalled")

C13_ShortMessageNoExemption ==
    (gate # NoDecision /\ Len(Strip(user_message)) < 10) =>
        gate = Decision(TRUE, "needs_guidance")

\* 'hello' on an empty history was answered so
C13_Witness ==
    /\ user_message = msg_hello
    /\ chat_history = <<>>
    /\ gate = Decision(TRUE, "needs_guidance")

(***************************************************************************)
(* The profile store (services/user_profile_db_service.py, database.py).   *)
(*                                                                         *)
(* A table is the sequence of its rows in id order; a row's id is its      *)
(* position.  The time of an operation is its number.  The session factory *)
(* has autoflush off: a query sees the rows flushed so far, not the rows   *)
(* added since the last commit.                                            *)
(***************************************************************************)
MaxOps == 3     \* store operations in one behaviour

Min2(a, b) == IF a <= b THEN a ELSE b
Max2(a, b) == IF a >= b THEN a ELSE b
MinOf(S) == CHOOSE x \in S : \A y \in S : x <= y

Sessions == {"s1", "s2"}

\* id of the profile of a session, 0 when there is none:
\* db.query(UserProfile).filter(UserProfile.session_id == session_id).first()
ProfileIdOf(profs, session_id) ==
    LET found == {i \in DOMAIN profs : profs[i].session_id = session_id}
    IN  IF found = {} THEN 0 ELSE MinOf(found)

\* no ChatSession row is kept by this store: visit_count takes its default
_create_user_profile(profs, session_id, now) ==
    Append(profs, [ session_id         |-> session_id,
                    visit_count        |-> 1,
                    total_interactions |-> 0,
                    satisfaction_score |-> 0,
                    last_activity      |-> now ])

\* "if not profile: profile = await self._create_user_profile(db, session_id)"
WithProfile(profs, session_id, now) ==
    IF ProfileIdOf(profs, session_id) = 0
    THEN _create_user_profile(profs, session_id, now)
    ELSE profs

\* mutation: reinforcement without the clamp
ReinforceUnclamped(confidence) == confidence + 1

\* min(existing.confidence + 0.1, 1.0)
Reinforce(confidence) == Min2(confidence + 1, 10)

InterestRow(profile_id, interest, confidence, source) ==
    [ profile_id |-> profile_id, interest |-> interest,
      confidence |-> confidence, source |-> source ]

\* rows of (profile, name), by id
InterestIds(rows, profile_id, interest) ==
    {i \in DOMAIN rows : rows[i].profile_id = profile_id /\ rows[i].interest = interest}

\* the loop of _update_interests_db; each query reads the table as it was
\* when the call began (`rows`), each change lands on the session (`acc`)
_update_interests_db(rows, profile_id, names) ==
    LET F[k \in 0..Len(names)] ==
            IF k = 0 THEN rows
            ELSE LET acc == F[k - 1]
                     existing == InterestIds(rows, profile_id, names[k])
                 IN  IF existing # {}
                     THEN [acc EXCEPT ![MinOf(existing)].confidence = Reinforce(@)]
                     ELSE Append(acc, InterestRow(profile_id, names[k], 7, "conversation"))
    IN  F[Len(names)]

\* a stored preference value: a string, or (update_activity_preference) a list
StrValue(v)   == [is_list |-> FALSE, items |-> {v}]
\* the None of an unset scalar bucket
NoneValue     == [is_list |-> FALSE, items |-> {}]
ListValue(vs) == [is_list |-> TRUE, items |-> vs]

PreferenceRow(profile_id, preference_type, preference_value, confidence) ==
    [ profile_id |-> profile_id, preference_type |-> preference_type,
      preference_value |-> preference_value, confidence |-> confidence ]

preference_mappings ==
    << <<"preferred_categories", "category">>,
       <<"preferred_locations", "location">>,
       <<"preferred_times", "time">>,
       <<"group_preference", "group_size">>,
       <<"budget_sensitivity", "budget">> >>

\* "values = activity_preferences.get(key, []); if not isinstance(values, list):
\*  values = [values] if values else []", then "if value:" on each;
\* a scalar is a string or None, "" and None are falsy
ValuesOf(activity_preferences, key) ==
    LET raw == activity_preferences[key]
        listed == IF key \in {"group_preference", "budget_sensitivity"}
                  THEN IF raw = None \/ raw = "" THEN <<>> ELSE <<raw>>
                  ELSE raw
        Truthy(v) == v # ""
    IN  SelectSeq(listed, Truthy)

\* the (type, value) pairs _update_preferences_db visits, in order
PreferenceItems(activity_preferences) ==
    LET F[k \in 0..Len(preference_mappings)] ==
            IF k = 0 THEN <<>>
            ELSE LET vs == ValuesOf(activity_preferences, preference_mappings[k][1])
                 IN  F[k - 1] \o [i \in DOMAIN vs |-> <<preference_mappings[k][2], vs[i]>>]
    IN  F[Len(preference_mappings)]

PreferenceIds(rows, profile_id, preference_type, preference_value) ==
    {i \in DOMAIN rows : /\ rows[i].profile_id = profile_id
                         /\ rows[i].preference_type = preference_type
                         /\ rows[i].preference_value = preference_value}

_update_preferences_db(rows, profile_id, activity_preferences) ==
    LET items == PreferenceItems(activity_preferences)
        F[k \in 0..Len(items)] ==
            IF k = 0 THEN rows
            ELSE LET acc == F[k - 1]
                     existing == PreferenceIds(rows, profile_id, items[k][1],
                                               StrValue(items[k][2]))
                 IN  IF existing # {}
                     THEN [acc EXCEPT ![MinOf(existing)].confidence = Reinforce(@)]
                     ELSE Append(acc, PreferenceRow(profile_id, items[k][1],
                                                    StrValue(items[k][2]), 7))
    IN  F[Len(items)]

\* _get_user_preferences: the buckets shown when the profile is read
_get_user_preferences(rows, profile_id) ==
    LET mine == SelectSeq(rows, LAMBDA r : r.profile_id = profile_id)
        Bucket(preference_type) ==
            LET of_type == SelectSeq(mine, LAMBDA r : r.preference_type = preference_type)
            IN  [i \in DOMAIN of_type |-> of_type[i].preference_value]
        LastOrNone(preference_type) ==
            LET b == Bucket(preference_type)
            IN  IF Len(b) = 0 THEN NoneValue ELSE b[Len(b)]
    IN  [ preferred_categories |-> Bucket("category"),
          preferred_locations  |-> Bucket("location"),
          preferred_times      |-> Bucket("time"),
          group_preference     |-> LastOrNone("group_size"),
          budget_sensitivity   |-> LastOrNone("budget") ]

\* _get_user_interests
_get_user_interests(rows, profile_id) ==
    LET mine == SelectSeq(rows, LAMBDA r : r.profile_id = profile_id)
    IN  [i \in DOMAIN mine |-> [ interest   |-> mine[i].interest,
                                 confidence |-> mine[i].confidence,
                                 source     |-> mine[i].source ]]

\* "profile.last_activity = datetime.utcnow()" on the profile of the session
Touch(profs, session_id, now) ==
    [profs EXCEPT ![ProfileIdOf(profs, session_id)].last_activity = now]

\* the upsert of update_user_interest
UpsertInterest(rows, profile_id, interest, confidence, source) ==
    LET existing_interest == InterestIds(rows, profile_id, interest)
    IN  IF existing_interest # {}
        THEN [rows EXCEPT ![MinOf(existing_interest)].confidence = Max2(@, confidence)]
        ELSE Append(rows, InterestRow(profile_id, interest, confidence, source))

\* the upsert of update_activity_preference, when the store takes the list
UpsertActivityPreference(rows, profile_id, preference_type, preference_values) ==
    LET existing_preference ==
            {i \in DOMAIN rows : /\ rows[i].profile_id = profile_id
                                 /\ rows[i].preference_type = preference_type}
        new_values == {preference_values[i] : i \in DOMAIN preference_values}
    IN  IF existing_preference # {}
        THEN [rows EXCEPT ![MinOf(existing_preference)].preference_value =
                              ListValue(@.items \cup new_values)]
        ELSE Append(rows, PreferenceRow(profile_id, preference_type,
                                        ListValue(new_values), 5))

\* what the Integer column user_behaviors.profile_id holds: the integer it
\* was given, or, under SQLite's type affinity, the text it was given
IntegerValue(n) == [is_text |-> FALSE, int |-> n, text |-> ""]
TextValue(text) == [is_text |-> TRUE, int |-> 0, text |-> text]

\* _record_behavior: one row added with the given profile_id, committed
_record_behavior(rows, profile_id, behavior_type, message_count, now) ==
    Append(rows, [ profile_id    |-> profile_id,
                   behavior_type |-> behavior_type,
                   message_count |-> message_count,
                   timestamp     |-> now ])

\* dict.get(key, default) of a key that may be absent
GetOr(value, default) == IF value = None THEN default ELSE value

\* mutation: feedback of a type already given replaces the stored row
RecordFeedbackMerging(rows, profile_id, feedback_data, now) ==
    LET row == [ profile_id     |-> profile_id,
                 feedback_type  |-> GetOr(feedback_data.feedback_type, "general"),
                 feedback_value |-> GetOr(feedback_data.feedback_value, ""),
                 rating         |-> feedback_data.rating,
                 created_at     |-> now ]
        same == {i \in DOMAIN rows : /\ rows[i].profile_id = profile_id
                                     /\ rows[i].feedback_type = row.feedback_type}
    IN  IF same = {} THEN Append(rows, row)
        ELSE [rows EXCEPT ![MinOf(same)] = row]

\* _record_feedback: one row added, committed; an absent rating stays None
_record_feedback(rows, profile_id, feedback_data, now) ==
    Append(rows, [ profile_id     |-> profile_id,
                   feedback_type  |-> GetOr(feedback_data.feedback_type, "general"),
                   feedback_value |-> GetOr(feedback_data.feedback_value, ""),
                   rating         |-> feedback_data.rating,
                   created_at     |-> now ])

\* {**old, **new}: every key of `new` with its value, the other keys of `old`
Merged(old, new) ==
    [k \in DOMAIN old \cup DOMAIN new |-> IF k \in DOMAIN new THEN new[k] ELSE old[k]]

\* "profile.personality_traits or {}": the columns of a row, {} when unset
TraitsOf(maps, profile_id) ==
    IF profile_id \in DOMAIN maps THEN maps[profile_id] ELSE NoTraits

\* mutation: the incoming maps replace the stored ones
MergeTraitsReplacing(maps, profile_id, new_data) ==
    [i \in DOMAIN maps \cup {profile_id} |->
        IF i # profile_id THEN maps[i]
        ELSE [ personality_traits  |-> new_data.personality_traits,
               communication_style |-> new_data.communication_style,
               engagement_patterns |-> new_data.engagement_patterns ]]

\* the "personality" branch of update_user_profile
MergeTraits(maps, profile_id, new_data) ==
    LET old == TraitsOf(maps, profile_id)
    IN  [i \in DOMAIN maps \cup {profile_id} |->
            IF i # profile_id THEN maps[i]
            ELSE [ personality_traits  |->
                       Merged(old.personality_traits, new_data.personality_traits),
                   communication_style |->
                       Merged(old.communication_style, new_data.communication_style),
                   engagement_patterns |->
                       Merged(old.engagement_patterns, new_data.engagement_patterns) ]]

(***************************************************************************)
(* Sampled arguments of the store operations.                              *)
(***************************************************************************)
InterestNames == {"music", "art"}

InterestLists == { <<"music", "art">>, <<"music", "music">> }

ActivityPreferences ==
    { [NoPreferences EXCEPT !.preferred_categories = <<"music">>,
                            !.preferred_locations = <<"taipei", "", "tainan">>,
                            !.group_preference = "small"],
      [NoPreferences EXCEPT !.preferred_categories = <<"music", "music">>,
                            !.preferred_times = <<"weekend">>,
                            !.budget_sensitivity = "mid"] }

\* the (new_data, update_type) pairs handed to update_user_profile
ProfileUpdates ==
    {<<[NoData EXCEPT !.interests = l], "interests">> : l \in InterestLists}
    \cup
    {<<[NoData EXCEPT !.activity_preferences = a], "preferences">> :
        a \in ActivityPreferences}

\* the confidence the agent passes (0.7), and another caller-given value
Confidences == {7, 9}

\* the two calls of Agent._update_user_profile_from_interaction
AgentPreferences ==
    { <<"preferred_locations", <<"taipei">>>>,
      <<"preferred_categories", <<"music">>>> }

(***************************************************************************)
(* Operations of the store.                                                *)
(***************************************************************************)
Now == nops + 1

Called(name, session_id, arg) ==
    /\ nops' = nops + 1
    /\ last_op' = Op(name, session_id, arg)

get_user_profile(session_id) ==
    /\ Called("get_user_profile", session_id, NoArg)
    /\ profiles' = WithProfile(profiles, session_id, Now)
    /\ UNCHANGED <<interests, preferences, traits, behaviors, feedbacks>>

update_user_profile(session_id, new_data, update_type) ==
    LET profs == WithProfile(profiles, session_id, Now)
        profile_id == ProfileIdOf(profs, session_id)
    IN  /\ Called("update_user_profile", session_id,
                  [NoArg EXCEPT !.new_data = new_data, !.update_type = update_type])
        /\ interests' = IF update_type = "interests"
                        THEN _update_interests_db(interests, profile_id, new_data.interests)
                        ELSE interests
        /\ preferences' = IF update_type = "preferences"
                          THEN _update_preferences_db(preferences, profile_id,
                                                      new_data.activity_preferences)
                          ELSE preferences
        /\ traits' = IF update_type = "personality"
                     THEN MergeTraits(traits, profile_id, new_data)
                     ELSE traits
        /\ behaviors' = IF update_type = "behavior"
                        THEN _record_behavior(behaviors, IntegerValue(profile_id),
                                              GetOr(new_data.behavior_type, "general"),
                                              0, Now)
                        ELSE behaviors
        /\ feedbacks' = IF update_type = "feedback"
                        THEN _record_feedback(feedbacks, IntegerValue(profile_id),
                                              new_data, Now)
                        ELSE feedbacks
        /\ profiles' = Touch(profs, session_id, Now)

\* the behavior row with the profile's id, then the count and the time
record_user_interaction(session_id, interaction_type) ==
    LET profs == WithProfile(profiles, session_id, Now)
        profile_id == ProfileIdOf(profs, session_id)
    IN  /\ Called("record_user_interaction", session_id,
                  [NoArg EXCEPT !.update_type = interaction_type])
        /\ behaviors' = _record_behavior(behaviors, IntegerValue(profile_id),
                                         interaction_type, 0, Now)
        /\ profiles' = [profs EXCEPT ![profile_id].total_interactions = @ + 1,
                                     ![profile_id].last_activity = Now]
        /\ UNCHANGED <<interests, preferences, traits, feedbacks>>

update_interaction_stats(session_id) ==
    LET profs == WithProfile(profiles, session_id, Now)
        profile_id == ProfileIdOf(profs, session_id)
    IN  /\ Called("update_interaction_stats", session_id, NoArg)
        /\ profiles' = [profs EXCEPT ![profile_id].total_interactions = @ + 1,
                                     ![profile_id].last_activity = Now]
        /\ UNCHANGED <<interests, preferences, traits, behaviors, feedbacks>>

update_user_interest(session_id, interest, confidence, source) ==
    LET profs == WithProfile(profiles, session_id, Now)
        profile_id == ProfileIdOf(profs, session_id)
    IN  /\ Called("update_user_interest", session_id,
                  [NoArg EXCEPT !.interest = interest, !.confidence = confidence])
        /\ profiles' = profs
        /\ interests' = UpsertInterest(interests, profile_id, interest, confidence, source)
        /\ UNCHANGED <<preferences, traits, behaviors, feedbacks>>

\* a Python list is bound to the String column preference_value: the SQLite
\* driver refuses it at the commit and the call rolls back; `accepted` is
\* the case of a store that takes the list
update_activity_preference(session_id, preference_type, preference_values, accepted) ==
    LET profs == WithProfile(profiles, session_id, Now)
        profile_id == ProfileIdOf(profs, session_id)
    IN  /\ Called("update_activity_preference", session_id,
                  [NoArg EXCEPT !.preference_type = preference_type,
                                !.preference_values = preference_values])
        /\ profiles' = profs
        /\ preferences' = IF accepted
                          THEN UpsertActivityPreference(preferences, profile_id,
                                                        preference_type, preference_values)
                          ELSE preferences
        /\ UNCHANGED <<interests, traits, behaviors, feedbacks>>

StoreInit == StoreIdle /\ StageIdle /\ GateIdle /\ MergeIdle /\ RestIdle

StoreNext ==
    /\ nops < MaxOps
    /\ \E session_id \in Sessions :
        \/ /\ get_user_profile(session_id)
           /\ UNCHANGED <<stage_vars, gate_vars, merge_vars, rest_vars>>
        \/ /\ \E u \in ProfileUpdates :
                  update_user_profile(session_id, u[1], u[2])
           /\ UNCHANGED <<stage_vars, gate_vars, merge_vars, rest_vars>>
        \/ /\ \E interest \in InterestNames, confidence \in Confidences :
                  update_user_interest(session_id, interest, confidence, "conversation")
           /\ UNCHANGED <<stage_vars, gate_vars, merge_vars, rest_vars>>
        \/ /\ \E p \in AgentPreferences, accepted \in BOOLEAN :
                  update_activity_preference(session_id, p[1], p[2], accepted)
           /\ UNCHANGED <<stage_vars, gate_vars, merge_vars, rest_vars>>

SpecStore == StoreInit /\ [][StoreNext]_vars

(***************************************************************************)
(* Claims on the store.                                                    *)
(***************************************************************************)
IsInterestUpsert(op) ==
    \/ op.op = "update_user_interest"
    \/ op.op = "update_user_profile" /\ op.arg.update_type = "interests"

\* C4: through either upsert entry point, the confidence of a stored
\* Interest never decreases from one upsert to the next and never exceeds
\* 1.0; the row stays the row of its (profile, name).
C4_InterestMonotoneBounded ==
    [][ /\ \A i \in DOMAIN interests :
            /\ i \in DOMAIN interests'
            /\ interests'[i].profile_id = interests[i].profile_id
            /\ interests'[i].interest = interests[i].interest
            /\ interests'[i].confidence >= interests[i].confidence
        /\ \A i \in DOMAIN interests' : interests'[i].confidence <= 10 ]_vars

\* an interest created by the per-turn upsert at 0.9 was reinforced by the
\* batch upsert and stands at the cap
C4_Witness ==
    /\ last_op.op = "update_user_profile"
    /\ last_op.arg.update_type = "interests"
    /\ \E i \in DOMAIN interests :
           /\ interests[i].confidence = 10
           /\ interests[i].profile_id = ProfileIdOf(profiles, last_op.session_id)
           /\ \E k \in DOMAIN last_op.arg.new_data.interests :
                  last_op.arg.new_data.interests[k] = interests[i].interest

\* how often a name is listed in a batch
Occurrences(names, name) == Cardinality({k \in DOMAIN names : names[k] = name})

\* the rule of C5 for one name upserted `times` times in a step, `given`
\* being the confidence of a new record
FollowsReinforcementRule(profile_id, name, times, given) ==
    LET before == InterestIds(interests, profile_id, name)
        after  == InterestIds(interests', profile_id, name)
    IN  IF before # {}
        THEN interests'[MinOf(before)].confidence
                 = Min2(interests[MinOf(before)].confidence + times, 10)
        ELSE \E i \in after : interests'[i].confidence = given

\* C5: every interest upsert, per-turn (update_user_interest) or batch
\* (_update_interests_db), sets the confidence of an existing (profile, name)
\* to min(old + 0.1, 1.0) and creates a missing one with 0.7 or the value
\* the caller gave; seeing an interest in two consecutive turns raises it
\* from 0.7 to 0.8.
C5_ExactReinforcement ==
    [][ (nops' = nops + 1 /\ IsInterestUpsert(last_op')) =>
          LET profile_id == ProfileIdOf(profiles', last_op'.session_id)
          IN  IF last_op'.op = "update_user_interest"
              THEN FollowsReinforcementRule(profile_id, last_op'.arg.interest, 1,
                                            last_op'.arg.confidence)
              ELSE \A name \in InterestNames :
                       Occurrences(last_op'.arg.new_data.interests, name) > 0 =>
                           FollowsReinforcementRule(
                               profile_id, name,
                               Occurrences(last_op'.arg.new_data.interests, name), 7) ]_vars

\* C6: the store never holds two Interest rows of one (profile, name) nor
\* two Preference rows of one (profile, type, value).
C6_UniqueRows ==
    /\ \A i, j \in DOMAIN interests :
           (/\ interests[i].profile_id = interests[j].profile_id
            /\ interests[i].interest = interests[j].interest) => i = j
    /\ \A i, j \in DOMAIN preferences :
           (/\ preferences[i].profile_id = preferences[j].profile_id
            /\ preferences[i].preference_type = preferences[j].preference_type
            /\ preferences[i].preference_value = preferences[j].preference_value)
               => i = j

\* how often a value is shown in a bucket read from the profile
Shown(bucket, value) == Cardinality({k \in DOMAIN bucket : bucket[k] = StrValue(value)})

\* C7: once a preference was written, by update_user_profile with
\* 'preferences' or by update_activity_preference as the agent calls it, the
\* profile read shows the value exactly once under the bucket of its type.
\* (A value listed twice in one batch is the case of C6, and is left out.)
C7_PreferenceRoundTrip ==
    LET read == _get_user_preferences(preferences,
                                      ProfileIdOf(profiles, last_op.session_id))
    IN  /\ last_op.op = "update_activity_preference" =>
              \A k \in DOMAIN last_op.arg.preference_values :
                  Shown(read[last_op.arg.preference_type],
                        last_op.arg.preference_values[k]) = 1
        /\ (last_op.op = "update_user_profile" /\ last_op.arg.update_type = "preferences") =>
              LET written == last_op.arg.new_data.activity_preferences
                  Once(key) == {written[key][k] : k \in DOMAIN written[key]}
                                   \ ({""} \cup {v \in {written[key][k] : k \in DOMAIN written[key]} :
                                                     Occurrences(written[key], v) > 1})
              IN  /\ \A key \in {"preferred_categories", "preferred_locations",
                                 "preferred_times"} :
                         \A v \in Once(key) : Shown(read[key], v) = 1
                  /\ \A key \in {"group_preference", "budget_sensitivity"} :
                         written[key] # None => read[key] = StrValue(written[key])

(***************************************************************************)
(* UserProfileDBService._integrate_profiles: the cross-session merge.      *)
(***************************************************************************)
MaxProfiles == 2

\* satisfaction_score None
NoScore == 0 - 1

\* mutation: the first record of a name is kept, whatever its confidence
UniqueInterestsKeepFirst(all_interests) ==
    LET F[k \in 0..Len(all_interests)] ==
            IF k = 0 THEN <<>>
            ELSE IF \E i \in DOMAIN F[k-1] :
                        F[k-1][i].interest = all_interests[k].interest
                 THEN F[k-1]
                 ELSE Append(F[k-1], all_interests[k])
    IN  F[Len(all_interests)]

\* the dict unique_interests, as the sequence of its values: a key keeps the
\* place of its first insertion, its value is replaced by a strictly more
\* confident one
unique_interests(all_interests) ==
    LET F[k \in 0..Len(all_interests)] ==
            IF k = 0 THEN <<>>
            ELSE LET interest == all_interests[k]
                     at == {i \in DOMAIN F[k-1] :
                                F[k-1][i].interest = interest.interest}
                 IN  IF at = {}
                     THEN Append(F[k-1], interest)
                     ELSE IF interest.confidence > F[k-1][MinOf(at)].confidence
                          THEN [F[k-1] EXCEPT ![MinOf(at)] = interest]
                          ELSE F[k-1]
    IN  F[Len(all_interests)]

\* sorted(values, key=confidence, reverse=True): a stable sort, equal
\* confidences keep the order they come in
sorted_interests(values) ==
    LET F[k \in 0..Len(values)] ==
            IF k = 0 THEN <<>>
            ELSE LET x == values[k]
                     ahead == Cardinality({i \in DOMAIN F[k-1] :
                                  F[k-1][i].confidence >= x.confidence})
                 IN  SubSeq(F[k-1], 1, ahead) \o <<x>>
                         \o SubSeq(F[k-1], ahead + 1, Len(F[k-1]))
    IN  F[Len(values)]

SumOf(numbers) ==
    LET F[k \in 0..Len(numbers)] == IF k = 0 THEN 0 ELSE F[k-1] + numbers[k]
    IN  F[Len(numbers)]

MaxOf(S) == CHOOSE x \in S : \A y \in S : x >= y

Elements(seq) == {seq[i] : i \in DOMAIN seq}

\* _create_default_profile_data("unknown"), in the fields of the merge
_create_default_profile_data ==
    [Integrated(1, 0, [sum |-> 0, count |-> 1], 0, <<>>, NoBuckets)
        EXCEPT !.session_id = "unknown"]

\* profile_ids are the ids of the UserProfile rows of the list, in its order.
\* The mean is kept as its exact sum and count; list(set(...)) returns the
\* values of a bucket in no particular order, so a bucket is the set.
_integrate_profiles(profs, interest_rows, preference_rows, profile_ids) ==
    IF profile_ids = <<>> THEN _create_default_profile_data
    ELSE
    LET total_visit_count == Len(profile_ids)
        total_interactions ==
            SumOf([k \in DOMAIN profile_ids |-> profs[profile_ids[k]].total_interactions])
        satisfaction_scores ==
            SelectSeq(profile_ids, LAMBDA id : profs[id].satisfaction_score # NoScore)
        avg_satisfaction ==
            [ sum   |-> SumOf([k \in DOMAIN satisfaction_scores |->
                                   profs[satisfaction_scores[k]].satisfaction_score]),
              count |-> Len(satisfaction_scores) ]
        last_activity == MaxOf({profs[id].last_activity : id \in Elements(profile_ids)})
        all_interests ==
            LET F[k \in 0..Len(profile_ids)] ==
                    IF k = 0 THEN <<>>
                    ELSE F[k-1] \o _get_user_interests(interest_rows, profile_ids[k])
            IN  F[Len(profile_ids)]
        all_preferences ==
            [ pref_type \in DOMAIN NoBuckets |->
                UNION { LET pref_value ==
                                _get_user_preferences(preference_rows, id)[pref_type]
                        IN  IF pref_type \in {"group_preference", "budget_sensitivity"}
                            THEN {pref_value}
                            ELSE Elements(pref_value)
                        : id \in Elements(profile_ids) } ]
    IN  Integrated(total_visit_count, total_interactions, avg_satisfaction,
                   last_activity, sorted_interests(unique_interests(all_interests)),
                   all_preferences)

(***************************************************************************)
(* Specification SpecMerge: the store holds the profiles of up to          *)
(* MaxProfiles sessions of one client, and the merge is run on them.       *)
(***************************************************************************)
SessionNames == <<"s1", "s2", "s3", "s4">>

\* (total_interactions, satisfaction_score, last_activity) of a profile row
ProfileStats == { <<0, NoScore, 1>>, <<2, 4, 2>>, <<3, 8, 2>> }

\* the interests of one session, as (name, confidence) in id order
SessionInterests ==
    { <<>>,
      << <<"music", 9>>, <<"art", 6>> >>,
      << <<"music", 5>>, <<"food", 7>> >>,
      << <<"art", 7>> >>,
      << <<"music", 9>>, <<"food", 9>> >> }

\* the preferences of one session, as (type, value) in id order
SessionPreferences ==
    { <<>>,
      << <<"location", "taipei">>, <<"category", "music">>, <<"group_size", "small">> >> }

\* the entries of profiles 1..n in id order, each as (profile id, entry)
RowsOf(n, entries) ==
    LET F[k \in 0..n] ==
            IF k = 0 THEN <<>>
            ELSE F[k-1] \o [i \in DOMAIN entries[k] |-> <<k, entries[k][i]>>]
    IN  F[n]

MergeInit ==
    /\ StageIdle /\ GateIdle /\ RestIdle
    /\ last_op = NoOp /\ nops = 0
    /\ traits = <<>> /\ behaviors = <<>> /\ feedbacks = <<>>
    /\ integrated = NotIntegrated
    /\ \E n \in 1..MaxProfiles :
         \E stats \in [1..n -> ProfileStats],
            mine \in [1..n -> SessionInterests],
            prefs \in [1..n -> SessionPreferences] :
            /\ profiles = [i \in 1..n |->
                              [ session_id         |-> SessionNames[i],
                                visit_count        |-> 1,
                                total_interactions |-> stats[i][1],
                                satisfaction_score |-> stats[i][2],
                                last_activity      |-> stats[i][3] ]]
            /\ interests =
                   [i \in DOMAIN RowsOf(n, mine) |->
                       LET e == RowsOf(n, mine)[i]
                       IN  InterestRow(e[1], e[2][1], e[2][2], "conversation")]
            /\ preferences =
                   [i \in DOMAIN RowsOf(n, prefs) |->
                       LET e == RowsOf(n, prefs)[i]
                       IN  PreferenceRow(e[1], e[2][1], StrValue(e[2][2]), 7)]
            /\ merge_input = [i \in 1..n |-> i]

\* get_cross_session_profile hands the rows it found to _integrate_profiles
Integrate ==
    /\ integrated = NotIntegrated
    /\ integrated' = _integrate_profiles(profiles, interests, preferences, merge_input)
    /\ UNCHANGED <<merge_input, stage_vars, gate_vars, store_vars, rest_vars>>

MergeNext == Integrate

SpecMerge == MergeInit /\ [][MergeNext]_vars

(***************************************************************************)
(* Claims on the merge.                                                    *)
(***************************************************************************)
Reorderings(seq) ==
    { [i \in DOMAIN seq |-> seq[p[i]]] :
          p \in {q \in [DOMAIN seq -> DOMAIN seq] :
                     \A i, j \in DOMAIN seq : q[i] = q[j] => i = j} }

\* C8: the merge of any permutation of the profile list is the same result,
\* field by field, the order of the interest list included.
C8_MergeOrderIndependent ==
    integrated # NotIntegrated =>
        \A other \in Reorderings(merge_input) :
            _integrate_profiles(profiles, interests, preferences, other) = integrated

InputInterests ==
    {r \in Elements(interests) : r.profile_id \in Elements(merge_input)}

\* C9: the merged interests hold each name of the input profiles once, with
\* the highest confidence an input profile has for it, in descending order
\* of confidence; visit_count is the number of profiles and
\* total_interactions the sum of theirs.
C9_MergedInterests ==
    integrated # NotIntegrated =>
        LET merged == integrated.interests
        IN  /\ {merged[i].interest : i \in DOMAIN merged}
                   = {r.interest : r \in InputInterests}
            /\ \A i, j \in DOMAIN merged :
                   merged[i].interest = merged[j].interest => i = j
            /\ \A i \in DOMAIN merged :
                   merged[i].confidence =
                       MaxOf({r.confidence : r \in {x \in InputInterests :
                                                       x.interest = merged[i].interest}})
            /\ \A i, j \in DOMAIN merged :
                   i < j => merged[i].confidence >= merged[j].confidence
            /\ integrated.visit_count = Len(merge_input)
            /\ integrated.total_interactions =
                   SumOf([k \in DOMAIN merge_input |->
                              profiles[merge_input[k]].total_interactions])

\* the scenario {music 0.9, art 0.6} merged with {music 0.5, food 0.7}
C9_Witness ==
    /\ Len(merge_input) = 2
    /\ [i \in DOMAIN integrated.interests |->
            <<integrated.interests[i].interest, integrated.interests[i].confidence>>]
           = << <<"music", 9>>, <<"food", 7>>, <<"art", 6>> >>
    /\ _get_user_interests(interests, merge_input[1])[1].confidence = 9
    /\ _get_user_interests(interests, merge_input[2])[1].confidence = 5
    /\ integrated.visit_count = 2
    /\ integrated.total_interactions = 5

(***************************************************************************)
(* IntentAnalysisService (services/analysis_service.py).  An intent is the *)
(* text the service returns.                                               *)
(***************************************************************************)
\* the text of each intent of the closed set
intent_text ==
    [ search_events       |-> <<"s", "e", "a", "r", "c", "h", "_", "e", "v", "e", "n", "t", "s">>,
      get_event_details   |-> <<"g", "e", "t", "_", "e", "v", "e", "n", "t", "_", "d", "e", "t", "a", "i", "l", "s">>,
      analyze_trends      |-> <<"a", "n", "a", "l", "y", "z", "e", "_", "t", "r", "e", "n", "d", "s">>,
      analyze_statistics  |-> <<"a", "n", "a", "l", "y", "z", "e", "_", "s", "t", "a", "t", "i", "s", "t", "i", "c", "s">>,
      get_recommendations |-> <<"g", "e", "t", "_", "r", "e", "c", "o", "m", "m", "e", "n", "d", "a", "t", "i", "o", "n", "s">>,
      compare_events      |-> <<"c", "o", "m", "p", "a", "r", "e", "_", "e", "v", "e", "n", "t", "s">>,
      analyze_geographic  |-> <<"a", "n", "a", "l", "y", "z", "e", "_", "g", "e", "o", "g", "r", "a", "p", "h", "i", "c">>,
      generate_report     |-> <<"g", "e", "n", "e", "r", "a", "t", "e", "_", "r", "e", "p", "o", "r", "t">>,
      greeting            |-> <<"g", "r", "e", "e", "t", "i", "n", "g">>,
      goodbye             |-> <<"g", "o", "o", "d", "b", "y", "e">>,
      help                |-> <<"h", "e", "l", "p">>,
      other               |-> <<"o", "t", "h", "e", "r">> ]

\* the closed intent set
Intents == {intent_text[label] : label \in DOMAIN intent_text}

\* 找 搜尋 查找 活動 展覽 音樂會 講座 課程 推薦
search_keywords ==
    { <<"u627e">>,
      <<"u641c", "u5c0b">>,
      <<"u67e5", "u627e">>,
      <<"u6d3b", "u52d5">>,
      <<"u5c55", "u89bd">>,
      <<"u97f3", "u6a02", "u6703">>,
      <<"u8b1b", "u5ea7">>,
      <<"u8ab2", "u7a0b">>,
      <<"u63a8", "u85a6">> }

\* 詳情 詳細 資訊 介紹 說明
detail_keywords ==
    { <<"u8a73", "u60c5">>,
      <<"u8a73", "u7d30">>,
      <<"u8cc7", "u8a0a">>,
      <<"u4ecb", "u7d39">>,
      <<"u8aaa", "u660e">> }

\* 分析 統計 趨勢 報告
analysis_keywords ==
    { <<"u5206", "u6790">>,
      <<"u7d71", "u8a08">>,
      <<"u8da8", "u52e2">>,
      <<"u5831", "u544a">> }

\* 推薦 建議 適合
recommendation_keywords ==
    { <<"u63a8", "u85a6">>,
      <<"u5efa", "u8b70">>,
      <<"u9069", "u5408">> }

\* 你好 哈囉 嗨 hello hi
greeting_keywords ==
    { <<"u4f60", "u597d">>,
      <<"u54c8", "u56c9">>,
      <<"u55e8">>,
      <<"h", "e", "l", "l", "o">>,
      <<"h", "i">> }

\* 再見 掰掰 bye goodbye
goodbye_keywords ==
    { <<"u518d", "u898b">>,
      <<"u63b0", "u63b0">>,
      <<"b", "y", "e">>,
      <<"g", "o", "o", "d", "b", "y", "e">> }

\* mutation: the recommendation test placed in front of the search test
FallbackRecommendationFirst(message) ==
    LET message_lower == Lower(message)
    IN  IF AnyIn(recommendation_keywords, message_lower) THEN intent_text.get_recommendations
        ELSE IF AnyIn(search_keywords, message_lower) THEN intent_text.search_events
        ELSE IF AnyIn(detail_keywords, message_lower) THEN intent_text.get_event_details
        ELSE IF AnyIn(analysis_keywords, message_lower) THEN intent_text.analyze_trends
        ELSE IF AnyIn(greeting_keywords, message_lower) THEN intent_text.greeting
        ELSE IF AnyIn(goodbye_keywords, message_lower) THEN intent_text.goodbye
        ELSE intent_text.other

_fallback_intent_analysis(message) ==
    LET message_lower == Lower(message)
    IN  IF AnyIn(search_keywords, message_lower) THEN intent_text.search_events
        ELSE IF AnyIn(detail_keywords, message_lower) THEN intent_text.get_event_details
        ELSE IF AnyIn(analysis_keywords, message_lower) THEN intent_text.analyze_trends
        ELSE IF AnyIn(recommendation_keywords, message_lower) THEN intent_text.get_recommendations
        ELSE IF AnyIn(greeting_keywords, message_lower) THEN intent_text.greeting
        ELSE IF AnyIn(goodbye_keywords, message_lower) THEN intent_text.goodbye
        ELSE intent_text.other

\* the reply's text is returned stripped, as it is; both except clauses go
\* to the keyword fallback
analyze_user_intent(message, reply) ==
    IF reply.kind = "text" THEN Strip(reply.content)
    ELSE _fallback_intent_analysis(message)

\* '找詳情'
ask_findDetail == <<"u627e", "u8a73", "u60c5">>
\* '詳情分析'
ask_detailAnalysis == <<"u8a73", "u60c5", "u5206", "u6790">>
\* '分析建議'
ask_analysisAdvice == <<"u5206", "u6790", "u5efa", "u8b70">>
\* '建議你好'
ask_adviceHello == <<"u5efa", "u8b70", "u4f60", "u597d">>
\* 'hi bye'
ask_hi_bye == <<"h", "i", " ", "b", "y", "e">>
\* 'Goodbye'
ask_Goodbye == <<"G", "o", "o", "d", "b", "y", "e">>
\* '推薦'
ask_recommend == <<"u63a8", "u85a6">>
\* 'Hello'
ask_Hello == <<"H", "e", "l", "l", "o">>
\* '嗯'
ask_neutral == <<"u55ef">>
\* 'this' (holds the greeting keyword 'hi')
ask_this == <<"t", "h", "i", "s">>
\* '課程報告'
ask_courseReport == <<"u8ab2", "u7a0b", "u5831", "u544a">>

IntentMessages ==
    { <<>>, ask_findDetail, ask_detailAnalysis, ask_analysisAdvice, ask_adviceHello,
      ask_hi_bye, ask_Goodbye, ask_recommend, ask_Hello, ask_neutral,
      ask_this, ask_courseReport }

\* what the capability may answer: a label of the set, a label padded with
\* blanks, 'ask_question' (option 9 of the prompt), a capitalised label, an
\* empty text, or a failure
IntentReplies ==
    { ReplyText(intent_text.search_events),
      ReplyText(intent_text.help),
      ReplyText(<<" ">> \o intent_text.greeting \o <<" ", "\n">>),
      ReplyText(<<"a", "s", "k", "_", "q", "u", "e", "s", "t", "i", "o", "n">>),
      ReplyText(<<"G", "r", "e", "e", "t", "i", "n", "g">>),
      ReplyText(<<>>),
      ReplyFailure("timeout"),
      ReplyFailure("connection_error"),
      ReplyFailure("error") }

IntentInit ==
    /\ user_message \in IntentMessages
    /\ llm_reply = NoReply
    /\ intent = NoIntent
    /\ chat_history = <<>> /\ stage = None
    /\ bot_response = <<>> /\ gate = NoDecision
    /\ StoreIdle /\ MergeIdle /\ AnalysisIdle /\ UpdateIdle /\ ServingIdle
    /\ AgentIdle

AnalyzeIntent(reply) ==
    /\ intent = NoIntent
    /\ llm_reply' = reply
    /\ intent' = analyze_user_intent(user_message, reply)
    /\ UNCHANGED <<chat_history, stage, gate_vars, store_vars, merge_vars,
                   analysis_vars, update_vars, serving_vars, agent_vars>>

IntentNext == \E reply \in IntentReplies : AnalyzeIntent(reply)

SpecIntent == IntentInit /\ [][IntentNext]_vars

\* C14: whatever the message and the capability's output are, the intent
\* returned is one of the twelve of the closed set.
C14_IntentInClosedSet ==
    intent # NoIntent => intent \in Intents

\* the keyword families in the order of their tests, each with its intent
IntentFamilies ==
    << <<search_keywords, intent_text.search_events>>,
       <<detail_keywords, intent_text.get_event_details>>,
       <<analysis_keywords, intent_text.analyze_trends>>,
       <<recommendation_keywords, intent_text.get_recommendations>>,
       <<greeting_keywords, intent_text.greeting>>,
       <<goodbye_keywords, intent_text.goodbye>> >>

\* the families with a keyword in the message, letter case aside
FamiliesIn(message) ==
    {i \in DOMAIN IntentFamilies : AnyIn(IntentFamilies[i][1], Lower(message))}

\* C15: when the capability fails, the intent is that of the first family,
\* in the order search, detail, analysis, recommendation, greeting, goodbye,
\* with a keyword in the message (letter case aside), and 'other' when there
\* is none; each of the six intents is the fallback's answer to some message.
C15_FallbackFirstMatch ==
    /\ (intent # NoIntent /\ llm_reply.kind # "text") =>
           IF FamiliesIn(user_message) = {}
           THEN intent = intent_text.other
           ELSE intent = IntentFamilies[MinOf(FamiliesIn(user_message))][2]
    /\ \A i \in DOMAIN IntentFamilies :
           \E message \in IntentMessages :
               _fallback_intent_analysis(message) = IntentFamilies[i][2]

\* a message with a recommendation and a greeting keyword was answered with
\* the earlier family after a timeout
C15_Witness ==
    /\ llm_reply = ReplyFailure("timeout")
    /\ FamiliesIn(user_message) = {4, 5}
    /\ intent = intent_text.get_recommendations

(***************************************************************************)
(* Conversation-derived profile analysis                                   *)
(* (services/user_profile_db_service.py).  The capability's answer goes    *)
(* through json.loads; the dict it yields, or the dict of the keyword      *)
(* fallback, is handed to update_user_profile with update_type             *)
(* "personality", and the call is recorded in user_behaviors.              *)
(***************************************************************************)
MaxProfileOps == 2   \* operations in one behaviour of the analysis

\* interest_keywords, in the order of the dict: each category (named by the
\* code points of its text) with its keywords
interest_keywords ==
    << <<"u85ddu8853",
          {<<"u85dd", "u8853">>,
           <<"u5c55", "u89bd">>,
           <<"u7f8e", "u8853">>,
           <<"u756b", "u5c55">>,
           <<"u85dd", "u6587">>,
           <<"u535a", "u7269", "u9928">>}>>,
       <<"u97f3u6a02",
          {<<"u97f3", "u6a02">>,
           <<"u6f14", "u5531", "u6703">>,
           <<"u97f3", "u6a02", "u6703">>,
           <<"u6f14", "u51fa">>,
           <<"u8868", "u6f14">>}>>,
       <<"u904bu52d5",
          {<<"u904b", "u52d5">>,
           <<"u5065", "u8eab">>,
           <<"u745c", "u4f3d">>,
           <<"u8dd1", "u6b65">>,
           <<"u7403", "u985e">>}>>,
       <<"u7f8eu98df",
          {<<"u7f8e", "u98df">>,
           <<"u9910", "u5ef3">>,
           <<"u6599", "u7406">>,
           <<"u70f9", "u98ea">>,
           <<"u54c1", "u9152">>}>>,
       <<"u5b78u7fd2",
          {<<"u5b78", "u7fd2">>,
           <<"u8ab2", "u7a0b">>,
           <<"u8b1b", "u5ea7">>,
           <<"u5de5", "u4f5c", "u574a">>,
           <<"u7814", "u7fd2">>}>>,
       <<"u89aau5b50",
          {<<"u89aa", "u5b50">>,
           <<"u5152", "u7ae5">>,
           <<"u5bb6", "u5ead">>,
           <<"u5c0f", "u5b69">>,
           <<"u5b69", "u5b50">>}>>,
       <<"u6236u5916",
          {<<"u6236", "u5916">>,
           <<"u91ce", "u9910">>,
           <<"u9732", "u71df">>,
           <<"u8e0f", "u9752">>,
           <<"u81ea", "u7136">>}>>,
       <<"u793eu4ea4",
          {<<"u793e", "u4ea4">>,
           <<"u805a", "u6703">>,
           <<"u4ea4", "u53cb">>,
           <<"u6d3e", "u5c0d">>,
           <<"u806f", "u8abc">>}>> >>

\* 台北 新北 桃園 台中 台南 高雄
location_keywords ==
    << <<"u53f0", "u5317">>,
       <<"u65b0", "u5317">>,
       <<"u6843", "u5712">>,
       <<"u53f0", "u4e2d">>,
       <<"u53f0", "u5357">>,
       <<"u9ad8", "u96c4">> >>

\* the name of a place, by the code points of its text
NameOf(text) ==
    LET F[k \in 0..Len(text)] == IF k = 0 THEN "" ELSE F[k - 1] \o text[k]
    IN  F[Len(text)]

\* 朋友 一起 團體 大家 聚會
social_indicators ==
    { <<"u670b", "u53cb">>,
      <<"u4e00", "u8d77">>,
      <<"u5718", "u9ad4">>,
      <<"u5927", "u5bb6">>,
      <<"u805a", "u6703">> }

\* 新 特別 有趣 刺激 體驗
adventure_indicators ==
    { <<"u65b0">>,
      <<"u7279", "u5225">>,
      <<"u6709", "u8da3">>,
      <<"u523a", "u6fc0">>,
      <<"u9ad4", "u9a57">> }

small_group == "u5c0fu5718u9ad4"   \* group_preference of a social user
individual == "u500bu4eba"       \* group_preference otherwise
medium_budget == "u4e2d"        \* budget_sensitivity


\* " ".join(user_messages)
Joined(texts) ==
    LET F[k \in 0..Len(texts)] ==
            IF k = 0 THEN <<>>
            ELSE IF k = 1 THEN texts[1]
            ELSE F[k - 1] \o <<" ">> \o texts[k]
    IN  F[Len(texts)]

_fallback_conversation_analysis(user_messages) ==
    LET combined_text == Lower(Joined(user_messages))
        hits == SelectSeq(interest_keywords, LAMBDA e : AnyIn(e[2], combined_text))
        found == [i \in DOMAIN hits |-> hits[i][1]]
        places == SelectSeq(location_keywords, LAMBDA l : Contains(combined_text, l))
        locations == [i \in DOMAIN places |-> NameOf(places[i])]
        social == AnyIn(social_indicators, combined_text)
        adventurous == AnyIn(adventure_indicators, combined_text)
    IN  [ interests |-> SubSeq(found, 1, Min2(3, Len(found))),
          activity_preferences |->
              [ preferred_categories |-> found,
                preferred_locations  |-> locations,
                preferred_times      |-> <<>>,
                group_preference     |-> IF social THEN small_group ELSE individual,
                budget_sensitivity   |-> medium_budget ],
          personality_traits |->
              [ openness          |-> "0.6",
                social_level      |-> IF social THEN "0.7" ELSE "0.4",
                adventure_seeking |-> IF adventurous THEN "0.7" ELSE "0.5",
                planning_style    |-> "planned" ],
          communication_style |->
              [ formality |-> "casual", detail_preference |-> "brief",
                question_style |-> "direct" ],
          engagement_patterns |->
              [ response_length |-> "medium", enthusiasm_level |-> "medium",
                decision_making |-> "deliberate" ] ]

\* _get_recent_behaviors: the rows of the profile id, latest first, ten at most
_get_recent_behaviors(rows, profile_id) ==
    LET mine == SelectSeq(rows, LAMBDA r : r.profile_id = IntegerValue(profile_id))
        latest_first == [i \in DOMAIN mine |-> mine[Len(mine) + 1 - i]]
    IN  SubSeq(latest_first, 1, Min2(10, Len(latest_first)))

\* the dict get_user_profile builds for a session that has a profile
ProfileDataOf(profs, maps, interest_rows, preference_rows, behavior_rows, session_id) ==
    LET profile_id == ProfileIdOf(profs, session_id)
    IN  ProfileData(session_id, profs[profile_id].visit_count,
                    profs[profile_id].total_interactions,
                    TraitsOf(maps, profile_id),
                    _get_user_interests(interest_rows, profile_id),
                    _get_user_preferences(preference_rows, profile_id),
                    _get_recent_behaviors(behavior_rows, profile_id))

\* [msg.get("content", "") for msg in chat_history if msg.get("role") == "user"]
UserMessages(history) ==
    LET mine == SelectSeq(history, IsUserTurn)
    IN  [i \in DOMAIN mine |-> mine[i].content]

\* the outcomes after which the except clauses call the keyword fallback
FallsBack(reply) ==
    reply.kind \in {"invalid_json", "timeout", "connection_error", "error"}

\* the capability is not asked when the history has no user message
NotAsked == AnalysisReply("not_asked", NoData)

\* The whole call.  Every path ends in get_user_profile, which creates the
\* profile of the session when there is none.  An answer that json.loads
\* accepts but that is no object has no .get: the outer except clause is
\* entered before anything is written.
analyze_user_from_conversation(session_id, history, reply) ==
    LET user_messages == UserMessages(history)
        asked == user_messages # <<>>
        analysis_result == IF reply.kind = "object"
                           THEN reply.result
                           ELSE _fallback_conversation_analysis(user_messages)
        written == asked /\ (reply.kind = "object" \/ FallsBack(reply))
        profs == WithProfile(profiles, session_id, Now)
        profile_id == ProfileIdOf(profs, session_id)
    IN  /\ Called("analyze_user_from_conversation", session_id, NoArg)
        /\ chat_history' = history
        /\ analysis_reply' = IF asked THEN reply ELSE NotAsked
        /\ profiles' = IF written THEN Touch(profs, session_id, Now) ELSE profs
        /\ traits' = IF written
                     THEN MergeTraits(traits, profile_id, analysis_result)
                     ELSE traits
        /\ behaviors' = IF written
                        THEN _record_behavior(behaviors, TextValue(session_id),
                                              "conversation_analysis",
                                              Len(user_messages), Now)
                        ELSE behaviors
        /\ UNCHANGED <<interests, preferences, feedbacks>>
        /\ profile_data' = ProfileDataOf(profiles', traits', interests', preferences',
                                         behaviors', session_id)

\* 想找台北的音樂會，和朋友一起
said_music_taipei_friends ==
    <<"u60f3", "u627e", "u53f0", "u5317", "u7684", "u97f3", "u6a02", "u6703", "uff0c", "u548c", "u670b", "u53cb", "u4e00", "u8d77">>
\* 有什麼新的展覽
said_new_exhibition ==
    <<"u6709", "u4ec0", "u9ebc", "u65b0", "u7684", "u5c55", "u89bd">>
\* 音樂 運動 美食 學習
said_four_categories ==
    <<"u97f3", "u6a02", " ", "u904b", "u52d5", " ", "u7f8e", "u98df", " ", "u5b78", "u7fd2">>
\* OK
said_ok ==
    <<"O", "K">>
\* 好的，幫你找
said_sure ==
    <<"u597d", "u7684", "uff0c", "u5e6b", "u4f60", "u627e">>

AnalysisHistories ==
    { <<>>,
      <<Turn("assistant", said_sure)>>,
      <<Turn("user", said_ok)>>,
      <<Turn("user", said_new_exhibition), Turn("assistant", said_sure),
        Turn("user", said_music_taipei_friends)>>,
      <<Turn("user", said_four_categories)>> }

\* an answer that is a JSON object: one interest, two preference buckets,
\* two of the three maps, one of them with a key the fallback also writes
object_answer ==
    [NoData EXCEPT
        !.interests = <<"music">>,
        !.activity_preferences =
            [NoPreferences EXCEPT !.preferred_categories = <<"music">>,
                                  !.group_preference = "small"],
        !.personality_traits = [openness |-> "0.8", planning_style |-> "spontaneous"],
        !.communication_style = [formality |-> "formal"]]

AnalysisReplies ==
    { AnalysisReply("object", object_answer),
      AnalysisReply("not_object", NoData),
      AnalysisReply("invalid_json", NoData),
      AnalysisReply("timeout", NoData),
      AnalysisReply("connection_error", NoData),
      AnalysisReply("error", NoData) }

\* the new_data of the "personality" updates: the maps of the example, and
\* a partial update that overwrites one stored key and adds another
PersonalityUpdates ==
    { [NoData EXCEPT
          !.personality_traits =
              [openness |-> "0.8", social_level |-> "0.7",
               adventure_seeking |-> "0.6", planning_style |-> "planned"],
          !.communication_style =
              [formality |-> "casual", detail_preference |-> "detailed",
               question_style |-> "exploratory"],
          !.engagement_patterns =
              [response_length |-> "medium", enthusiasm_level |-> "high",
               decision_making |-> "deliberate"]],
      [NoData EXCEPT
          !.personality_traits = [openness |-> "0.3", curiosity |-> "0.9"],
          !.communication_style = [formality |-> "formal"]] }

ProfileInit == StoreIdle /\ StageIdle /\ GateIdle /\ MergeIdle /\ RestIdle

ProfileNext ==
    /\ nops < MaxProfileOps
    /\ \E session_id \in Sessions :
        \/ /\ \E new_data \in PersonalityUpdates :
                  update_user_profile(session_id, new_data, "personality")
           /\ UNCHANGED <<stage_vars, gate_vars, merge_vars, rest_vars>>
        \/ /\ \E u \in ProfileUpdates :
                  update_user_profile(session_id, u[1], u[2])
           /\ UNCHANGED <<stage_vars, gate_vars, merge_vars, rest_vars>>
        \/ /\ \E history \in AnalysisHistories, reply \in AnalysisReplies :
                  analyze_user_from_conversation(session_id, history, reply)
           /\ UNCHANGED <<llm_reply, stage, gate_vars, merge_vars, intent_vars,
                          update_vars, serving_vars, agent_vars>>

SpecProfile == ProfileInit /\ [][ProfileNext]_vars

\* the analysis step just taken, on a history with a user message
AnalysisStep ==
    /\ nops' = nops + 1
    /\ last_op'.op = "analyze_user_from_conversation"
    /\ UserMessages(chat_history') # <<>>

\* the dict the step wrote from: the capability's, else the fallback's
AnalysisResult(reply, history) ==
    IF reply.kind = "object" THEN reply.result
    ELSE _fallback_conversation_analysis(UserMessages(history))

TraitMaps == {"personality_traits", "communication_style", "engagement_patterns"}

\* C19: after analyze_user_from_conversation ran on a history with at least
\* one user message, every interest and every activity preference of the
\* analysis result is a row of the profile, the three maps hold the result's
\* keys over the stored ones, and the profile has exactly one more Behavior
\* event than before.
C19_AnalysisWrittenThrough ==
    [][ AnalysisStep =>
          LET session_id == last_op'.session_id
              profile_id == ProfileIdOf(profiles', session_id)
              result == AnalysisResult(analysis_reply', chat_history')
              items == PreferenceItems(result.activity_preferences)
          IN  /\ \A k \in DOMAIN result.interests :
                     InterestIds(interests', profile_id, result.interests[k]) # {}
              /\ \A k \in DOMAIN items :
                     PreferenceIds(preferences', profile_id, items[k][1],
                                   StrValue(items[k][2])) # {}
              /\ \A map \in TraitMaps :
                     TraitsOf(traits', profile_id)[map] =
                         Merged(TraitsOf(traits, profile_id)[map], result[map])
              /\ Len(_get_recent_behaviors(behaviors', profile_id)) =
                     Len(_get_recent_behaviors(behaviors, profile_id)) + 1 ]_vars

\* the "personality" update just taken
PersonalityStep ==
    /\ nops' = nops + 1
    /\ last_op'.op = "update_user_profile"
    /\ last_op'.arg.update_type = "personality"

\* C20: after update_user_profile with update_type "personality", each of
\* the three maps holds every incoming key with the incoming value and every
\* stored key absent from the input with its old value; the interest rows,
\* the preference rows, visit_count and total_interactions are as before.
C20_TraitShallowMerge ==
    [][ PersonalityStep =>
          LET session_id == last_op'.session_id
              incoming == last_op'.arg.new_data
              before == ProfileIdOf(profiles, session_id)
              profile_id == ProfileIdOf(profiles', session_id)
              old == TraitsOf(traits, profile_id)
              new == TraitsOf(traits', profile_id)
          IN  /\ \A map \in TraitMaps :
                   /\ \A k \in DOMAIN incoming[map] :
                          k \in DOMAIN new[map] /\ new[map][k] = incoming[map][k]
                   /\ \A k \in DOMAIN old[map] \ DOMAIN incoming[map] :
                          k \in DOMAIN new[map] /\ new[map][k] = old[map][k]
                   /\ DOMAIN new[map] = DOMAIN old[map] \cup DOMAIN incoming[map]
              /\ interests' = interests
              /\ preferences' = preferences
              /\ before # 0 =>
                   /\ profiles'[profile_id].visit_count = profiles[before].visit_count
                   /\ profiles'[profile_id].total_interactions =
                          profiles[before].total_interactions ]_vars

\* a partial update came after the full one: openness was overwritten, a new
\* key was added, and the keys it did not name kept their values
C20_Witness ==
    /\ last_op.op = "update_user_profile"
    /\ last_op.arg.update_type = "personality"
    /\ \E i \in DOMAIN traits :
           /\ DOMAIN traits[i].personality_traits =
                  {"openness", "curiosity", "social_level", "adventure_seeking",
                   "planning_style"}
           /\ traits[i].personality_traits["openness"] = "0.3"
           /\ traits[i].personality_traits["curiosity"] = "0.9"
           /\ traits[i].personality_traits["social_level"] = "0.7"
           /\ DOMAIN traits[i].communication_style =
                  {"formality", "detail_preference", "question_style"}
           /\ traits[i].communication_style["formality"] = "formal"
           /\ traits[i].communication_style["question_style"] = "exploratory"
           /\ DOMAIN traits[i].engagement_patterns =
                  {"response_length", "enthusiasm_level", "decision_making"}
           /\ traits[i].engagement_patterns["enthusiasm_level"] = "high"

\* C16 (profile analysis): whenever the capability times out, cannot be
\* reached, raises or answers with malformed output, the analysis returns
\* what the keyword fallback returns for the same history: the profile whose
\* three maps carry the fallback's values over the stored ones, the call
\* being recorded once.
C16_AnalysisFallsBack ==
    [][ (AnalysisStep /\ analysis_reply'.kind # "object") =>
          LET session_id == last_op'.session_id
              profile_id == ProfileIdOf(profiles', session_id)
              fallback == _fallback_conversation_analysis(UserMessages(chat_history'))
          IN  /\ \A map \in TraitMaps :
                     profile_data'[map] =
                         Merged(TraitsOf(traits, profile_id)[map], fallback[map])
              /\ Len(behaviors') = Len(behaviors) + 1 ]_vars

(***************************************************************************)
(* The profile update at the end of a turn                                 *)
(* (Agent._update_user_profile_from_interaction, core/agent.py).  It is a  *)
(* sequence of store operations, each with its own commit and its own      *)
(* except clause; `fail_at` is the operation whose commit the store        *)
(* refuses, 0 when none does.                                              *)
(***************************************************************************)
MaxTurns == 2   \* turns in one behaviour of the update

\* activity_keywords, in the order of the dict: each category (named by the
\* code points of its text) with its keywords
activity_keywords ==
    << <<"u97f3u6a02",
          {<<"u97f3", "u6a02">>,
           <<"u6f14", "u5531", "u6703">>,
           <<"u97f3", "u6a02", "u6703">>,
           <<"u6f14", "u51fa">>,
           <<"u8868", "u6f14">>,
           <<"u6b4c", "u624b">>,
           <<"u6a02", "u5718">>}>>,
       <<"u85ddu8853",
          {<<"u85dd", "u8853">>,
           <<"u5c55", "u89bd">>,
           <<"u7f8e", "u8853">>,
           <<"u756b", "u5c55">>,
           <<"u85dd", "u6587">>,
           <<"u535a", "u7269", "u9928">>,
           <<"u756b", "u5eca">>}>>,
       <<"u904bu52d5",
          {<<"u904b", "u52d5">>,
           <<"u5065", "u8eab">>,
           <<"u745c", "u4f3d">>,
           <<"u8dd1", "u6b65">>,
           <<"u7403", "u985e">>,
           <<"u6e38", "u6cf3">>,
           <<"u767b", "u5c71">>}>>,
       <<"u7f8eu98df",
          {<<"u7f8e", "u98df">>,
           <<"u9910", "u5ef3">>,
           <<"u6599", "u7406">>,
           <<"u70f9", "u98ea">>,
           <<"u54c1", "u9152">>,
           <<"u5496", "u5561">>,
           <<"u751c", "u9ede">>}>>,
       <<"u5b78u7fd2",
          {<<"u5b78", "u7fd2">>,
           <<"u8ab2", "u7a0b">>,
           <<"u8b1b", "u5ea7">>,
           <<"u5de5", "u4f5c", "u574a">>,
           <<"u7814", "u7fd2">>,
           <<"u6559", "u5b78">>}>>,
       <<"u89aau5b50",
          {<<"u89aa", "u5b50">>,
           <<"u5152", "u7ae5">>,
           <<"u5bb6", "u5ead">>,
           <<"u5c0f", "u5b69">>,
           <<"u5b69", "u5b50">>}>>,
       <<"u6236u5916",
          {<<"u6236", "u5916">>,
           <<"u91ce", "u9910">>,
           <<"u9732", "u71df">>,
           <<"u8e0f", "u9752">>,
           <<"u81ea", "u7136">>,
           <<"u90ca", "u904a">>}>>,
       <<"u793eu4ea4",
          {<<"u793e", "u4ea4">>,
           <<"u805a", "u6703">>,
           <<"u4ea4", "u53cb">>,
           <<"u6d3e", "u5c0d">>,
           <<"u806f", "u8abc">>}>> >>

_extract_interests_from_message(message) ==
    LET message_lower == Lower(message)
        hits == SelectSeq(activity_keywords, LAMBDA e : AnyIn(e[2], message_lower))
        detected_interests == [i \in DOMAIN hits |-> hits[i][1]]
    IN  SubSeq(detected_interests, 1, Min2(3, Len(detected_interests)))

\* one store operation of the update
Write(kind, interest, preference_type, preference_values) ==
    [kind |-> kind, interest |-> interest, preference_type |-> preference_type,
     preference_values |-> preference_values]

\* the store operations of one update, in the order of their calls
WritesOf(message, given_intent, search_params) ==
    LET found == _extract_interests_from_message(message)
        searched == given_intent = intent_text.search_events
                        /\ search_params # NoSearchParams
    IN  [i \in DOMAIN found |-> Write("update_user_interest", found[i], "", <<>>)]
        \o (IF searched /\ search_params.city # ""
            THEN <<Write("update_activity_preference", "", "preferred_locations",
                         <<search_params.city>>)>>
            ELSE <<>>)
        \o (IF searched /\ search_params.category # ""
            THEN <<Write("update_activity_preference", "", "preferred_categories",
                         <<search_params.category>>)>>
            ELSE <<>>)
        \o <<Write("update_interaction_stats", "", "", <<>>)>>

\* the three tables as one value
Db(profs, interest_rows, preference_rows) ==
    [profiles |-> profs, interests |-> interest_rows, preferences |-> preference_rows]

\* One operation on the tables.  The profile of the session is read or
\* created first, and _create_user_profile commits on its own; the rest is
\* committed at the end of the operation, or rolled back when that commit
\* is refused (`committed` false) or when the driver rejects the list bound
\* to preference_value (`accepted` false).
Applied(db, session_id, write, committed, accepted, now) ==
    LET profs == WithProfile(db.profiles, session_id, now)
        profile_id == ProfileIdOf(profs, session_id)
    IN  IF ~committed THEN Db(profs, db.interests, db.preferences)
        ELSE IF write.kind = "update_user_interest"
        THEN Db(profs,
                UpsertInterest(db.interests, profile_id, write.interest, 7,
                               "conversation"),
                db.preferences)
        ELSE IF write.kind = "update_activity_preference"
        THEN Db(profs, db.interests,
                IF accepted
                THEN UpsertActivityPreference(db.preferences, profile_id,
                                              write.preference_type,
                                              write.preference_values)
                ELSE db.preferences)
        ELSE Db([profs EXCEPT ![profile_id].total_interactions = @ + 1,
                              ![profile_id].last_activity = now],
                db.interests, db.preferences)

\* the operations one after the other; a refused one is logged and the
\* next one is called
AppliedAll(db, session_id, writes, fail_at, accepted, now) ==
    LET F[k \in 0..Len(writes)] ==
            IF k = 0 THEN db
            ELSE Applied(F[k - 1], session_id, writes[k], k # fail_at, accepted, now)
    IN  F[Len(writes)]

\* 想看演唱會和畫展
wrote_concert_and_show ==
    <<"u60f3", "u770b", "u6f14", "u5531", "u6703", "u548c", "u756b", "u5c55">>
\* 我想去游泳
wrote_swimming ==
    <<"u6211", "u60f3", "u53bb", "u6e38", "u6cf3">>
\* Thanks
wrote_thanks ==
    <<"T", "h", "a", "n", "k", "s">>

UpdateMessages == {wrote_concert_and_show, wrote_swimming, wrote_thanks}

\* the intent of the turn with the search_params of its handler's response
UpdateTurns ==
    { <<intent_text.search_events, SearchParams("taipei", "music")>>,
      <<intent_text.greeting, NoSearchParams>> }

\* the session whose turns are updated
UpdateSessions == {"s1"}

_update_user_profile_from_interaction(session_id, message, given_intent, search_params, fail_at, accepted) ==
    LET writes == WritesOf(message, given_intent, search_params)
        db == AppliedAll(Db(profiles, interests, preferences), session_id, writes,
                         fail_at, accepted, Now)
    IN  /\ Called("_update_user_profile_from_interaction", session_id, NoArg)
        /\ user_message' = message
        /\ intent' = given_intent
        /\ failed_write' = fail_at
        /\ profiles' = db.profiles
        /\ interests' = db.interests
        /\ preferences' = db.preferences
        /\ UNCHANGED <<traits, behaviors, feedbacks>>

UpdateInit == StoreIdle /\ StageIdle /\ GateIdle /\ MergeIdle /\ RestIdle

UpdateNext ==
    /\ nops < MaxTurns
    /\ \E session_id \in UpdateSessions :
        \/ /\ \E message \in UpdateMessages, turn \in UpdateTurns :
                 \E fail_at \in 0..Len(WritesOf(message, turn[1], turn[2])),
                    accepted \in BOOLEAN :
                  /\ turn[2] = NoSearchParams => accepted
                  /\ _update_user_profile_from_interaction(session_id, message,
                         turn[1], turn[2], fail_at, accepted)
           /\ UNCHANGED <<stage_vars, bot_response, gate, merge_vars, analysis_vars,
                          serving_vars, agent_vars>>
        \/ /\ get_user_profile(session_id)
           /\ UNCHANGED <<stage_vars, gate_vars, merge_vars, rest_vars>>

SpecUpdate == UpdateInit /\ [][UpdateNext]_vars

\* the update just taken, one of its store operations having been refused
FailedUpdateStep ==
    /\ nops' = nops + 1
    /\ last_op'.op = "_update_user_profile_from_interaction"
    /\ failed_write' # 0

\* C17: when a store write fails inside one logical profile update, none of
\* the update's rows remains persisted: the interest rows, the preference
\* rows and the interaction count of the profile are those of before.
C17_FailedUpdateLeavesNothing ==
    [][ FailedUpdateStep =>
          LET session_id == last_op'.session_id
              before == ProfileIdOf(profiles, session_id)
              profile_id == ProfileIdOf(profiles', session_id)
          IN  /\ interests' = interests
              /\ preferences' = preferences
              /\ profiles'[profile_id].total_interactions =
                     IF before = 0 THEN 0 ELSE profiles[before].total_interactions
        ]_vars

(***************************************************************************)
(* Turns in flight (main.chat, Agent.process_message).  The server runs    *)
(* the requests as coroutines of one event loop and takes no lock: a turn  *)
(* runs until it awaits real I/O.  The capability and the store are called *)
(* synchronously; the search handler awaits the event API over HTTP, the   *)
(* conversation handler awaits nothing.  A turn is therefore two steps,    *)
(* up to its handler and from its handler's return, with other turns       *)
(* between the two only when the handler awaits.                           *)
(***************************************************************************)
MaxInFlight == 2   \* requests served at the same time

Requests == 1..MaxInFlight

\* a request: its session, its message, and what the turn will make of it
Request(session_id, message, given_intent, search_params) ==
    [session_id |-> session_id, message |-> message, intent |-> given_intent,
     search_params |-> search_params]

\* handle_search_events reaches "await http_client.get(...)"
HandlerAwaits(given_intent) == given_intent = intent_text.search_events

SampleRequests ==
    { Request(session_id, wrote_concert_and_show, intent_text.search_events,
              SearchParams("taipei", "music")) : session_id \in Sessions }
    \cup
    { Request(session_id, wrote_thanks, intent_text.greeting, NoSearchParams) :
        session_id \in Sessions }

ServingInit ==
    /\ StoreIdle /\ StageIdle /\ GateIdle /\ MergeIdle
    /\ IntentIdle /\ AnalysisIdle /\ UpdateIdle /\ AgentIdle
    /\ requests \in [Requests -> SampleRequests]
    /\ turn_pc = [t \in Requests |-> "arrived"]
    /\ turn_log = <<>>

\* no other coroutine is between two awaits
LoopFree(t) == \A u \in Requests \ {t} : turn_pc[u] # "running"

\* process_message up to the handler: the profile analysis of the history
\* (the stage and the intent are classified without the store)
BeginTurn(t, reply) ==
    /\ turn_pc[t] = "arrived"
    /\ LoopFree(t)
    /\ analyze_user_from_conversation(requests[t].session_id,
                                      <<Turn("user", requests[t].message)>>, reply)
    /\ turn_pc' = [turn_pc EXCEPT ![t] = IF HandlerAwaits(requests[t].intent)
                                         THEN "awaiting" ELSE "running"]
    /\ turn_log' = Append(turn_log, t)
    /\ UNCHANGED <<requests, llm_reply, stage, gate_vars, merge_vars, intent_vars,
                   update_vars, agent_vars>>

\* process_message from the handler's return: the update of the profile
FinishTurn(t, accepted) ==
    /\ turn_pc[t] \in {"awaiting", "running"}
    /\ LoopFree(t)
    /\ _update_user_profile_from_interaction(requests[t].session_id,
           requests[t].message, requests[t].intent, requests[t].search_params,
           0, accepted)
    /\ turn_pc' = [turn_pc EXCEPT ![t] = "done"]
    /\ turn_log' = Append(turn_log, t)
    /\ UNCHANGED <<requests, stage_vars, bot_response, gate, merge_vars,
                   analysis_vars, agent_vars>>

ServingNext ==
    \E t \in Requests :
        \/ BeginTurn(t, AnalysisReply("timeout", NoData))
        \/ \E accepted \in BOOLEAN :
               /\ requests[t].search_params = NoSearchParams => accepted
               /\ FinishTurn(t, accepted)

SpecServing == ServingInit /\ [][ServingNext]_vars

\* a turn of the session took a profile step between two profile steps of
\* another turn of the same session
Interleaved ==
    \E i, j, k \in DOMAIN turn_log :
        /\ i < j /\ j < k
        /\ turn_log[i] = turn_log[k]
        /\ turn_log[j] # turn_log[i]
        /\ requests[turn_log[j]].session_id = requests[turn_log[i]].session_id

FinishedTurns(session_id) ==
    {t \in Requests : requests[t].session_id = session_id /\ turn_pc[t] = "done"}

\* C18: the profile steps of two turns of one session never interleave, so
\* every finished turn is counted in total_interactions and no (profile,
\* interest) or (profile, preference type) pair has two rows.
C18_TurnsSerialized ==
    /\ ~Interleaved
    /\ \A i, j \in DOMAIN interests :
           (/\ interests[i].profile_id = interests[j].profile_id
            /\ interests[i].interest = interests[j].interest) => i = j
    /\ \A i, j \in DOMAIN preferences :
           (/\ preferences[i].profile_id = preferences[j].profile_id
            /\ preferences[i].preference_type = preferences[j].preference_type)
               => i = j
    /\ \A session_id \in Sessions :
           ProfileIdOf(profiles, session_id) # 0 =>
               profiles[ProfileIdOf(profiles, session_id)].total_interactions =
                   Cardinality(FinishedTurns(session_id))

(***************************************************************************)
(* Every entry point of the store, one after the other                     *)
(* (services/user_profile_db_service.py).                                  *)
(***************************************************************************)
MaxWrites == 3   \* operations in one behaviour of the entry points

\* the (new_data, update_type) pairs of update_user_profile, one of each
\* type, the feedback with and without its keys
WriteUpdates ==
    { <<[NoData EXCEPT !.interests = <<"music", "art">>], "interests">>,
      <<[NoData EXCEPT !.activity_preferences =
            [NoPreferences EXCEPT !.preferred_categories = <<"music">>,
                                  !.group_preference = "small"]], "preferences">>,
      <<[NoData EXCEPT !.personality_traits = [openness |-> "0.8"]], "personality">>,
      <<[NoData EXCEPT !.behavior_type = "click"], "behavior">>,
      <<NoData, "behavior">>,
      <<[NoData EXCEPT !.feedback_type = "satisfaction",
                       !.feedback_value = "fine", !.rating = "4.5"], "feedback">>,
      <<NoData, "feedback">> }

WritesInit == StoreIdle /\ StageIdle /\ GateIdle /\ MergeIdle /\ RestIdle

WritesNext ==
    /\ nops < MaxWrites
    /\ \E session_id \in Sessions :
        \/ /\ get_user_profile(session_id)
           /\ UNCHANGED <<stage_vars, gate_vars, merge_vars, rest_vars>>
        \/ /\ \E u \in WriteUpdates : update_user_profile(session_id, u[1], u[2])
           /\ UNCHANGED <<stage_vars, gate_vars, merge_vars, rest_vars>>
        \/ /\ update_user_interest(session_id, "music", 7, "conversation")
           /\ UNCHANGED <<stage_vars, gate_vars, merge_vars, rest_vars>>
        \/ /\ \E accepted \in BOOLEAN :
                  update_activity_preference(session_id, "preferred_locations",
                                             <<"taipei">>, accepted)
           /\ UNCHANGED <<stage_vars, gate_vars, merge_vars, rest_vars>>
        \/ /\ record_user_interaction(session_id, "search")
           /\ UNCHANGED <<stage_vars, gate_vars, merge_vars, rest_vars>>
        \/ /\ update_interaction_stats(session_id)
           /\ UNCHANGED <<stage_vars, gate_vars, merge_vars, rest_vars>>
        \/ /\ analyze_user_from_conversation(session_id, <<Turn("user", said_ok)>>,
                                             AnalysisReply("timeout", NoData))
           /\ UNCHANGED <<llm_reply, stage, gate_vars, merge_vars, intent_vars,
                          update_vars, serving_vars, agent_vars>>

SpecWrites == WritesInit /\ [][WritesNext]_vars

\* the rows of a log that carry the id of the session's profile
LogOf(rows, profs, session_id) ==
    SelectSeq(rows, LAMBDA r :
                        r.profile_id = IntegerValue(ProfileIdOf(profs, session_id)))

\* the step is a record operation on the behavior log / the feedback log
RecordsBehavior(op) ==
    \/ op.op = "record_user_interaction"
    \/ op.op = "update_user_profile" /\ op.arg.update_type = "behavior"
RecordsFeedback(op) ==
    op.op = "update_user_profile" /\ op.arg.update_type = "feedback"

\* C21: a record operation adds exactly one row to the log of the session's
\* profile, and no operation of the store changes or removes a Behavior or
\* Feedback row that exists: each table only grows at its end.
C21_LogsAppendOnly ==
    [][ /\ \A i \in DOMAIN behaviors :
              i \in DOMAIN behaviors' /\ behaviors'[i] = behaviors[i]
        /\ \A i \in DOMAIN feedbacks :
              i \in DOMAIN feedbacks' /\ feedbacks'[i] = feedbacks[i]
        /\ (nops' = nops + 1 /\ RecordsBehavior(last_op')) =>
              /\ Len(LogOf(behaviors', profiles', last_op'.session_id)) =
                     Len(LogOf(behaviors, profiles', last_op'.session_id)) + 1
              /\ Len(behaviors') = Len(behaviors) + 1
              /\ feedbacks' = feedbacks
        /\ (nops' = nops + 1 /\ RecordsFeedback(last_op')) =>
              /\ Len(LogOf(feedbacks', profiles', last_op'.session_id)) =
                     Len(LogOf(feedbacks, profiles', last_op'.session_id)) + 1
              /\ Len(feedbacks') = Len(feedbacks) + 1
              /\ behaviors' = behaviors ]_vars

\* a profile with two feedback rows of one type and a behavior row
C21_Witness ==
    /\ Len(LogOf(feedbacks, profiles, "s1")) = 2
    /\ feedbacks[1].feedback_type = feedbacks[2].feedback_type
    /\ Len(LogOf(behaviors, profiles, "s1")) = 1

\* the step wrote to the profile of its session or to one of its child rows
WroteStep ==
    /\ nops' = nops + 1
    /\ \/ interests' # interests
       \/ preferences' # preferences
       \/ traits' # traits
       \/ behaviors' # behaviors
       \/ feedbacks' # feedbacks
       \/ LET before == ProfileIdOf(profiles, last_op'.session_id)
          IN  /\ before # 0
              /\ profiles'[before].total_interactions #
                     profiles[before].total_interactions

\* C22: every successful write to a profile or to its child rows, through
\* any entry point, leaves last_activity of that profile at the time of the
\* write; last_activity of a profile never decreases.
C22_WritesRefreshActivity ==
    [][ /\ WroteStep =>
              profiles'[ProfileIdOf(profiles', last_op'.session_id)].last_activity
                  = nops'
        /\ \A i \in DOMAIN profiles :
              profiles'[i].last_activity >= profiles[i].last_activity ]_vars

(***************************************************************************)
(* Question generation: ProactiveQuestioningService.generate_proactive_    *)
(* questions and the seven generators it dispatches to.  A question or a   *)
(* suggestion is a string; the fixed texts of the source are abbreviated   *)
(* to a label naming the branch and the position in its list, and an       *)
(* f-string is the label followed by the text it interpolates.             *)
(***************************************************************************)

\* dict.get(key): the value, or None when the key is absent
Get(map, key) == IF key \in DOMAIN map THEN map[key] ELSE None

\* seq[:n]
Take(seq, n) == SubSeq(seq, 1, Min2(n, Len(seq)))

\* truth value of a string or None
Truthy(value) == value # None /\ value # ""

\* the numbers a JSON trait can hold, in tenths; any other value is not a
\* number and comparing it with a float raises TypeError
number_of ==
    ("0.0" :> 0) @@ ("0.1" :> 1) @@ ("0.2" :> 2) @@ ("0.3" :> 3) @@ ("0.4" :> 4)
      @@ ("0.5" :> 5) @@ ("0.6" :> 6) @@ ("0.7" :> 7) @@ ("0.8" :> 8)
      @@ ("0.9" :> 9) @@ ("1.0" :> 10)
IsNumber(value) == value \in DOMAIN number_of

\* _extract_interest_name on the dicts built by _get_user_interests
_extract_interest_name(interest) == interest.interest

\* _extract_interest_names: the names in order, empty names and repetitions
\* left out
RECURSIVE ExtractNames(_, _)
ExtractNames(interest_list, names) ==
    IF interest_list = <<>> THEN names
    ELSE LET name == _extract_interest_name(Head(interest_list))
         IN  ExtractNames(Tail(interest_list),
                          IF Truthy(name) /\ \A i \in DOMAIN names : names[i] # name
                          THEN Append(names, name) ELSE names)
_extract_interest_names(interest_list) == ExtractNames(interest_list, <<>>)

\* ', '.join(names)
RECURSIVE JoinedNames(_)
JoinedNames(names) ==
    IF names = <<>> THEN ""
    ELSE IF Len(names) = 1 THEN names[1]
    ELSE names[1] \o ", " \o JoinedNames(Tail(names))

\* the dict every generator returns
Questions(questions, question_type, confidence, follow_up_suggestions) ==
    [ questions |-> questions, question_type |-> question_type,
      confidence |-> confidence, follow_up_suggestions |-> follow_up_suggestions ]

_generate_opening_questions(user_profile) ==
    LET is_new_user == user_profile.visit_count <= 1
        mine == user_profile.interests
        questions ==
            IF is_new_user
            THEN <<"opening_new_1", "opening_new_2", "opening_new_3">>
            ELSE IF mine # <<>>
            THEN << "opening_back_interest:" \o _extract_interest_name(mine[1]),
                    "opening_back_like:"
                        \o JoinedNames(_extract_interest_names(Take(mine, 2))),
                    "opening_back_explore" >>
            ELSE <<"opening_back_1", "opening_back_2", "opening_back_3">>
        follow_up_suggestions ==
            IF is_new_user
            THEN <<"music_show", "art_exhibition", "outdoor", "food", "course">>
            ELSE IF mine # <<>>
            THEN _extract_interest_names(Take(mine, 3)) \o <<"explore_new">>
            ELSE <<"music", "art", "sport", "food", "study">>
    IN  Questions(Take(questions, 2), "opening", 9, follow_up_suggestions)

\* the candidate lists of _generate_exploring_questions before they are cut;
\* a social_level that is not a number raises at the comparison
ExploringRaises(user_profile) ==
    LET social_level == Get(user_profile.personality_traits, "social_level")
    IN  social_level # None /\ ~IsNumber(social_level)
ExploringCandidates(user_profile) ==
    LET mine == user_profile.interests
        prefs == user_profile.activity_preferences
        given == Get(user_profile.personality_traits, "social_level")
        social_level == IF given = None THEN 5 ELSE number_of[given]
        base ==
            IF mine = <<>>
            THEN <<"exploring_leisure", "exploring_indoor_outdoor",
                   "exploring_alone_friends">>
            ELSE IF Len(mine) = 1
            THEN << "exploring_besides:" \o _extract_interest_name(mine[1]),
                    "exploring_form_of:" \o _extract_interest_name(mine[1]),
                    "exploring_try_new" >>
            ELSE << "exploring_focus:"
                        \o JoinedNames(_extract_interest_names(Take(mine, 2))),
                    "exploring_combine", "exploring_deepen" >>
        base_suggestions ==
            IF mine = <<>>
            THEN <<"music", "art", "sport", "food", "outdoor", "study">>
            ELSE _extract_interest_names(mine) \o <<"explore_new">>
        social == IF social_level > 7 THEN <<"exploring_big_or_small">>
                  ELSE IF social_level < 3 THEN <<"exploring_for_one">>
                  ELSE <<>>
        no_locations == prefs.preferred_locations = <<>>
        no_times == prefs.preferred_times = <<>>
    IN  [ questions |->
              base \o social
                   \o (IF no_locations THEN <<"exploring_where">> ELSE <<>>)
                   \o (IF no_times THEN <<"exploring_when">> ELSE <<>>),
          follow_up_suggestions |->
              base_suggestions
                   \o (IF no_locations
                       THEN <<"taipei", "taichung", "kaohsiung", "tainan">>
                       ELSE <<>>)
                   \o (IF no_times THEN <<"weekend", "weekday_evening", "holiday">>
                       ELSE <<>>) ]

\* mutation: the suggestions of the exploring branch are returned uncut
GenerateExploringUncut(context, user_profile) ==
    IF ExploringRaises(user_profile)
    THEN Questions(<<"exploring_leisure">>, "exploring_needs", 5, <<>>)
    ELSE LET c == ExploringCandidates(user_profile)
         IN  Questions(Take(c.questions, 3), "exploring_needs", 8,
                       c.follow_up_suggestions)

_generate_exploring_questions(context, user_profile) ==
    IF ExploringRaises(user_profile)
    THEN Questions(<<"exploring_leisure">>, "exploring_needs", 5, <<>>)
    ELSE LET c == ExploringCandidates(user_profile)
         IN  Questions(Take(c.questions, 3), "exploring_needs", 8,
                       Take(c.follow_up_suggestions, 5))

\* the question asked for one ambiguous entity, if its type is known
EntityQuestions(entity) ==
    IF entity.type \in {"location", "time", "category"}
    THEN <<"clarifying_" \o entity.type \o ":" \o entity.value>>
    ELSE <<>>

RECURSIVE FromEntities(_)
FromEntities(entities) ==
    IF entities = <<>> THEN <<>>
    ELSE EntityQuestions(Head(entities)) \o FromEntities(Tail(entities))

_generate_clarifying_questions(context, user_profile) ==
    LET ambiguous_entities == context.ambiguous_entities
        current_search == context.current_search
        first_two == Take(ambiguous_entities, 2)
        from_search ==
            IF DOMAIN current_search = {} THEN <<>>
            ELSE (IF /\ Truthy(Get(current_search, "query"))
                     /\ ~Truthy(Get(current_search, "category"))
                  THEN <<"clarifying_which_category">> ELSE <<>>)
              \o (IF /\ Truthy(Get(current_search, "location"))
                     /\ ~Truthy(Get(current_search, "specific_area"))
                  THEN <<"clarifying_which_area">> ELSE <<>>)
              \o (IF ~Truthy(Get(current_search, "time_range"))
                  THEN <<"clarifying_time_limit">> ELSE <<>>)
        asked == FromEntities(first_two) \o from_search
        questions == IF asked = <<>>
                     THEN <<"clarifying_understood", "clarifying_confirm",
                            "clarifying_anything_else">>
                     ELSE asked
        follow_up_suggestions ==
               (IF Truthy(Get(current_search, "category"))
                THEN <<"confirm:" \o current_search["category"]>> ELSE <<>>)
            \o (IF Truthy(Get(current_search, "location"))
                THEN <<"confirm:" \o current_search["location"]>> ELSE <<>>)
            \o <<"start_search", "change_conditions">>
    IN  Questions(Take(questions, 2), "clarifying", 7,
                  Take(follow_up_suggestions, 4))

_generate_searching_questions(context, user_profile) ==
    LET last_search_results == context.last_search_results
        result_count == IF "count" \in DOMAIN last_search_results
                        THEN last_search_results["count"] ELSE 0
        questions ==
            IF DOMAIN last_search_results = {}
            THEN <<"searching_more_conditions", "searching_confirmed",
                   "searching_adjust_parameters">>
            ELSE IF result_count = 0
            THEN <<"searching_none_adjust", "searching_none_relax",
                   "searching_none_other">>
            ELSE IF result_count > 50
            THEN <<"searching_many_narrow", "searching_many_filter",
                   "searching_many_sort">>
            ELSE <<"searching_some_details", "searching_some_fit",
                   "searching_some_adjust">>
        follow_up_suggestions ==
            IF DOMAIN last_search_results = {}
            THEN <<"start_search", "change_conditions", "reset">>
            ELSE IF result_count = 0
            THEN <<"relax_time", "widen_area", "change_category", "lower_demands">>
            ELSE IF result_count > 50
            THEN <<"narrow_time", "name_area", "pick_category", "sort_by_time">>
            ELSE <<"see_details", "change_conditions", "search_again",
                   "other_type">>
    IN  Questions(Take(questions, 2), "search_optimization", 8,
                  Take(follow_up_suggestions, 4))

_generate_recommending_questions(context, user_profile) ==
    LET last_search_results == context.last_search_results
        mine == user_profile.interests
        events == IF "events" \in DOMAIN last_search_results
                  THEN last_search_results["events"] ELSE <<>>
        event_count == Len(events)
        recommended ==
            IF events = <<>> THEN <<>>
            ELSE IF event_count = 1
            THEN <<"recommending_one_fit", "recommending_one_details",
                   "recommending_one_similar">>
            ELSE IF event_count <= 5
            THEN <<"recommending_few_which", "recommending_few_details",
                   "recommending_few_why">>
            ELSE <<"recommending_many_which", "recommending_many_filter",
                   "recommending_many_best">>
        recommended_suggestions ==
            IF events = <<>> THEN <<>>
            ELSE IF event_count = 1
            THEN <<"see_details", "see_similar", "search_again">>
            ELSE IF event_count <= 5
            THEN <<"pick_event", "why_recommended", "see_more">>
            ELSE <<"filter_by_time", "filter_by_place", "see_popular",
                   "personalized">>
        names == _extract_interest_names(Take(mine, 2))
        asked ==
            recommended
              \o (IF mine # <<>>
                  THEN <<"recommending_by_interest:"
                             \o _extract_interest_name(mine[1])>>
                  ELSE <<>>)
        suggested ==
            recommended_suggestions
              \o (IF mine # <<>>
                  THEN [i \in DOMAIN names |-> "more:" \o names[i]] ELSE <<>>)
        questions == IF asked = <<>>
                     THEN <<"recommending_thoughts", "recommending_reasons",
                            "recommending_more_personal">>
                     ELSE asked
        follow_up_suggestions ==
            IF asked = <<>>
            THEN <<"see_reasons", "personalized", "search_again">>
            ELSE suggested
    IN  Questions(Take(questions, 2), "recommendation_optimization", 8,
                  Take(follow_up_suggestions, 4))

_generate_deciding_questions(context, user_profile) ==
    Questions(Take(<<"deciding_more_information", "deciding_compare",
                     "deciding_other_factors", "deciding_sign_up">>, 2),
              "decision_support", 7,
              <<"compare_events", "see_sign_up", "see_details", "factors">>)

_generate_closing_questions(user_profile) ==
    Questions(Take(<<"closing_anything_else", "closing_hope_helped",
                     "closing_enjoy", "closing_welcome_back">>, 2),
              "closing", 9,
              <<"other_needs", "event_advice", "experience">>)

\* generate_proactive_questions: one generator per stage, the exploring one
\* for the exploring stage and for any stage that is none of the seven
generate_proactive_questions(context, user_profile, conversation_stage) ==
    CASE conversation_stage = "opening" -> _generate_opening_questions(user_profile)
      [] conversation_stage = "exploring" ->
             _generate_exploring_questions(context, user_profile)
      [] conversation_stage = "clarifying" ->
             _generate_clarifying_questions(context, user_profile)
      [] conversation_stage = "searching" ->
             _generate_searching_questions(context, user_profile)
      [] conversation_stage = "recommending" ->
             _generate_recommending_questions(context, user_profile)
      [] conversation_stage = "deciding" ->
             _generate_deciding_questions(context, user_profile)
      [] conversation_stage = "closing" -> _generate_closing_questions(user_profile)
      [] OTHER -> _generate_exploring_questions(context, user_profile)

\* the longest interest list and the longest event list that are sampled
MaxInterests == 4
MaxEvents == 6

\* interests as _get_user_interests returns them, one name twice
SampleInterestNames == <<"music", "art", "music", "sport", "food", "study">>
SampleInterests ==
    { [i \in 1..n |-> [interest |-> SampleInterestNames[i], confidence |-> 7,
                       source |-> "conversation"]] :
        n \in 0..Min2(MaxInterests, Len(SampleInterestNames)) }

\* personality_traits: no social_level, a high, a middle and a low one, and
\* one that the analysis returned as a word
SampleTraits ==
    { EmptyMap } \cup
    { [k \in {"social_level"} |-> v] : v \in {"0.8", "0.5", "0.2", "high"} }

\* the profiles handed to the generators: the dict built by get_user_profile
GenerationProfiles ==
    { ProfileData("s1", visit_count, 0,
                  [NoTraits EXCEPT !.personality_traits = t], mine, prefs, <<>>) :
        visit_count \in {1, 3}, t \in SampleTraits, mine \in SampleInterests,
        prefs \in { NoPreferences,
                    [NoPreferences EXCEPT !.preferred_locations = <<"taipei">>,
                                          !.preferred_times = <<"weekend">>] } }

\* last_search_results: absent, or a count and that many events
SampleSearchResults ==
    { EmptyMap } \cup
    { [k \in {"count"} |-> n] : n \in {0, 10, 60} } \cup
    { ("count" :> n) @@ ("events" :> [i \in 1..n |-> i]) :
        n \in {1, 3, MaxEvents} }

GenerationContexts ==
    { Context(<<>>, EmptyMap, results) : results \in SampleSearchResults } \cup
    { Context(<<[type |-> "location", value |-> "north"]>>, EmptyMap, EmptyMap),
      Context(<<[type |-> "price", value |-> "cheap"]>>, EmptyMap, EmptyMap),
      Context(<<[type |-> "time", value |-> "soon"],
                [type |-> "category", value |-> "show"],
                [type |-> "location", value |-> "north"]>>,
              ("query" :> "concert") @@ ("location" :> "taipei"), EmptyMap),
      Context(<<>>, ("query" :> "concert") @@ ("category" :> "music")
                        @@ ("location" :> "taipei") @@ ("specific_area" :> "xinyi")
                        @@ ("time_range" :> "weekend"), EmptyMap) }

\* the seven stages and a value that is none of them
GenerationStages == valid_stages \cup {"unknown"}

QuestionsInit ==
    /\ StageIdle /\ GateIdle /\ StoreIdle /\ MergeIdle /\ RestIdle

GenerateQuestions(context, user_profile, conversation_stage) ==
    /\ generation = NoGeneration
    /\ generation' = [context |-> context, user_profile |-> user_profile,
                      conversation_stage |-> conversation_stage]
    /\ proactive' = generate_proactive_questions(context, user_profile,
                                                 conversation_stage)
    /\ UNCHANGED <<stage_vars, gate_vars, store_vars, merge_vars, intent_vars,
                   analysis_vars, update_vars, serving_vars, turn_vars, extra_vars>>

QuestionsNext ==
    \E context \in GenerationContexts, user_profile \in GenerationProfiles,
       conversation_stage \in GenerationStages :
        GenerateQuestions(context, user_profile, conversation_stage)

SpecQuestions == QuestionsInit /\ [][QuestionsNext]_vars

\* C23: whatever the stage (one of the seven or an unrecognized one), the
\* profile and the context, the generator returns at least 1 and at most 3
\* questions and at most 5 follow-up suggestions.
C23_GenerationCapped ==
    generation # NoGeneration =>
        /\ Len(proactive.questions) \in 1..3
        /\ Len(proactive.follow_up_suggestions) <= 5

\* an unrecognized stage takes the exploring branch, whose seven candidate
\* suggestions and five candidate questions were cut to five and three
C23_Witness ==
    /\ generation.conversation_stage = "unknown"
    /\ Len(ExploringCandidates(generation.user_profile).follow_up_suggestions) > 5
    /\ Len(ExploringCandidates(generation.user_profile).questions) > 3
    /\ Len(proactive.questions) = 3
    /\ Len(proactive.follow_up_suggestions) = 5

(***************************************************************************)
(* One turn of Agent.process_message, call by call in the order of the     *)
(* code.  What a handler returns depends on the text capability and on the *)
(* event search, so the draft is drawn from the responses a handler of the *)
(* intent can give.                                                        *)
(***************************************************************************)

\* the "if intent == ..." chain of process_message: the handler of an intent
HandlerOf(given_intent) ==
    CASE given_intent = intent_text.search_events -> "handle_search_events"
      [] given_intent = intent_text.greeting -> "handle_greeting"
      [] given_intent = intent_text.goodbye -> "handle_goodbye"
      [] given_intent = intent_text.help -> "handle_help"
      [] given_intent = intent_text.analyze_trends -> "handle_analyze_trends"
      [] given_intent = intent_text.analyze_statistics -> "handle_analyze_statistics"
      [] given_intent = intent_text.get_recommendations -> "handle_get_recommendations"
      [] given_intent = intent_text.compare_events -> "handle_compare_events"
      [] given_intent = intent_text.analyze_geographic -> "handle_analyze_geographic"
      [] given_intent = intent_text.generate_report -> "handle_generate_report"
      [] given_intent = intent_text.get_event_details -> "handle_get_event_details"
      [] OTHER -> "_handle_general_question"

\* f"{i}. {question}\n" for i, question in enumerate(questions, 1)
Numbered(questions) ==
    [i \in DOMAIN questions |-> ToString(i) \o ". " \o questions[i] \o "\n"]
\* f"• {suggestion}\n"
Bulleted(suggestions) ==
    [i \in DOMAIN suggestions |-> "* " \o suggestions[i] \o "\n"]
\* "\n\n---\n\n", then the heading of the questions
block_opening == <<"\n\n---\n\n", "also_help:\n\n">>
\* the heading of the suggestions
suggestions_heading == "\nrelated:\n"

\* mutation: every follow-up suggestion is appended
EnhanceAllSuggestions(original_response, proactive_questions) ==
    IF proactive_questions.questions = <<>> THEN original_response
    ELSE [ original_response EXCEPT
             !.proactive_questions = proactive_questions,
             !.message =
                 original_response.message \o block_opening
                   \o Numbered(Take(proactive_questions.questions, 3))
                   \o (IF proactive_questions.follow_up_suggestions = <<>> THEN <<>>
                       ELSE <<suggestions_heading>>
                              \o Bulleted(proactive_questions.follow_up_suggestions)) ]

\* the message is a sequence of pieces: the characters of the draft, then
\* the strings appended to it
_enhance_response_with_proactive_questions(original_response, proactive_questions) ==
    IF proactive_questions.questions = <<>> THEN original_response
    ELSE [ original_response EXCEPT
             !.proactive_questions = proactive_questions,
             !.message =
                 original_response.message \o block_opening
                   \o Numbered(Take(proactive_questions.questions, 3))
                   \o (IF proactive_questions.follow_up_suggestions = <<>> THEN <<>>
                       ELSE <<suggestions_heading>>
                              \o Bulleted(Take(
                                   proactive_questions.follow_up_suggestions, 2))) ]

\* the session of the agent
TurnSession == "s1"

\* mutation: the direct search is recorded as an interaction of the session
DirectSearchRecorded(result) ==
    /\ step = "arrived"
    /\ direct_params # NoSearchParams
    /\ record_user_interaction(TurnSession, "search")
    /\ calls' = Append(calls, "direct_search_events")
    /\ turn_response' = result
    /\ step' = "returned"
    /\ UNCHANGED <<extra_vars, stage_vars, gate_vars, merge_vars, intent_vars,
                   analysis_vars, update_vars, serving_vars,
                   generation, proactive, direct_params, draft>>

\* "if search_params: return await self.direct_search_events(page, search_params)"
DirectSearch(result) ==
    /\ step = "arrived"
    /\ direct_params # NoSearchParams
    /\ calls' = Append(calls, "direct_search_events")
    /\ turn_response' = result
    /\ step' = "returned"
    /\ UNCHANGED <<extra_vars, stage_vars, gate_vars, store_vars, merge_vars, intent_vars,
                   analysis_vars, update_vars, serving_vars,
                   generation, proactive, direct_params, draft>>

AnalyzeProfile(reply) ==
    /\ step = "arrived"
    /\ direct_params = NoSearchParams
    /\ analyze_user_from_conversation(TurnSession, chat_history, reply)
    /\ calls' = Append(calls, "analyze_user_from_conversation")
    /\ step' = "profile"
    /\ UNCHANGED <<extra_vars, llm_reply, stage, gate_vars, merge_vars, intent_vars,
                   update_vars, serving_vars,
                   generation, proactive, direct_params, draft, turn_response>>

ClassifyStage(reply) ==
    /\ step = "profile"
    /\ llm_reply' = reply
    /\ stage' = analyze_conversation_stage(chat_history, reply)
    /\ calls' = Append(calls, "analyze_conversation_stage")
    /\ step' = "stage"
    /\ UNCHANGED <<extra_vars, chat_history, gate_vars, store_vars, merge_vars, intent_vars,
                   analysis_vars, update_vars, serving_vars,
                   generation, proactive, direct_params, draft, turn_response>>

ClassifyIntent(reply) ==
    /\ step = "stage"
    /\ intent' = analyze_user_intent(user_message, reply)
    /\ calls' = Append(calls, "analyze_user_intent")
    /\ step' = "intent"
    /\ UNCHANGED <<extra_vars, stage_vars, gate_vars, store_vars, merge_vars,
                   analysis_vars, update_vars, serving_vars,
                   generation, proactive, direct_params, draft, turn_response>>

\* the handler of the intent returns its response
Handle(handler_response) ==
    /\ step = "intent"
    /\ draft' = [handler_response EXCEPT !.intent = intent]
    /\ turn_response' = draft'
    /\ bot_response' = draft'.message
    /\ calls' = Append(calls, HandlerOf(intent))
    /\ step' = "draft"
    /\ UNCHANGED <<extra_vars, stage_vars, user_message, gate, store_vars, merge_vars,
                   intent_vars, analysis_vars, update_vars, serving_vars,
                   generation, proactive, direct_params>>

\* should_ask_proactive_question, and when it says so
\* generate_proactive_questions and _enhance_response_with_proactive_questions;
\* self.context.dict() carries the history and none of the keys
\* ambiguous_entities, current_search, last_search_results
AskAndEnhance ==
    LET decision == should_ask_proactive_question(user_message, draft.message,
                                                  chat_history)
        proactive_questions ==
            generate_proactive_questions(NoContext, profile_data, stage)
    IN  /\ step = "draft"
        /\ gate' = decision
        /\ IF decision.ask
           THEN /\ generation' = [context |-> NoContext,
                                  user_profile |-> profile_data,
                                  conversation_stage |-> stage]
                /\ proactive' = proactive_questions
                /\ turn_response' = _enhance_response_with_proactive_questions(
                                        turn_response, proactive_questions)
                /\ calls' = calls \o <<"should_ask_proactive_question",
                                       "generate_proactive_questions",
                                       "_enhance_response_with_proactive_questions">>
           ELSE /\ UNCHANGED <<generation, proactive, turn_response>>
                /\ calls' = Append(calls, "should_ask_proactive_question")
        /\ step' = "augmented"
        /\ UNCHANGED <<extra_vars, stage_vars, user_message, bot_response, store_vars,
                       merge_vars, intent_vars, analysis_vars, update_vars,
                       serving_vars, direct_params, draft>>

UpdateFromInteraction(accepted) ==
    /\ step = "augmented"
    /\ _update_user_profile_from_interaction(TurnSession, user_message, intent,
           turn_response.search_params, 0, accepted)
    /\ calls' = Append(calls, "_update_user_profile_from_interaction")
    /\ step' = "updated"
    /\ UNCHANGED <<extra_vars, stage_vars, bot_response, gate, merge_vars, analysis_vars,
                   serving_vars, generation, proactive, direct_params, draft,
                   turn_response>>

\* the summary of the profile is added and the response is returned
ReturnResponse ==
    LET profs == WithProfile(profiles, TurnSession, Now)
        profile_id == ProfileIdOf(profs, TurnSession)
        mine == _get_user_interests(interests, profile_id)
    IN  /\ step = "updated"
        /\ get_user_profile(TurnSession)
        /\ turn_response' =
               [ turn_response EXCEPT
                   !.user_profile_summary =
                       Summary(profs[profile_id].visit_count,
                               Take([i \in DOMAIN mine |-> mine[i].interest], 5),
                               profs[profile_id].total_interactions,
                               profs[profile_id].last_activity),
                   !.conversation_stage = stage ]
        /\ calls' = Append(calls, "get_user_profile")
        /\ step' = "returned"
        /\ UNCHANGED <<extra_vars, stage_vars, gate_vars, merge_vars, intent_vars,
                       analysis_vars, update_vars, serving_vars,
                       generation, proactive, direct_params, draft>>

\* the messages, histories and request parameters of the sampled turns
TurnMessages == { msg_hello, msg_plain, wrote_concert_and_show, ask_findDetail }
TurnHistories ==
    { <<>>,
      <<Turn("user", said_ok), Turn("assistant", draft_plain),
        Turn("user", msg_plain)>> }
TurnParams == { NoSearchParams, SearchParams("taipei", "music") }

\* what a handler can return: a plain answer, or a search result with the
\* parameters it searched with
HandlerResponses ==
    { Response(draft_plain, None, TRUE, NoSearchParams, <<>>),
      Response(draft_results, None, TRUE, SearchParams("taipei", "music"),
               <<1, 2>>) }

\* the store before the turn: empty, or holding the profile of the session
\* with an interest
KnownProfile ==
    /\ profiles = <<[ session_id |-> TurnSession, visit_count |-> 3,
                      total_interactions |-> 4, satisfaction_score |-> 0,
                      last_activity |-> 0 ]>>
    /\ interests = <<InterestRow(1, "music", 7, "conversation")>>
    /\ preferences = <<>> /\ traits = <<>> /\ behaviors = <<>> /\ feedbacks = <<>>
    /\ last_op = NoOp /\ nops = 0

TurnInit ==
    /\ (StoreIdle \/ KnownProfile) /\ MergeIdle /\ IntentIdle /\ AnalysisIdle /\ UpdateIdle
    /\ ServingIdle
    /\ llm_reply = NoReply /\ stage = None
    /\ bot_response = <<>> /\ gate = NoDecision
    /\ QuestionIdle /\ ExtraIdle
    /\ calls = <<>> /\ draft = NoResponse /\ turn_response = NoResponse
    /\ step = "arrived"
    /\ user_message \in TurnMessages
    /\ chat_history \in TurnHistories
    /\ direct_params \in TurnParams

TurnNext ==
    \/ \E result \in HandlerResponses : DirectSearch(result)
    \/ AnalyzeProfile(AnalysisReply("timeout", NoData))
    \/ \E reply \in {ReplyText(stage_text["deciding"]), ReplyFailure("timeout")} :
           ClassifyStage(reply)
    \/ \E reply \in {ReplyText(intent_text.search_events), ReplyFailure("timeout")} :
           ClassifyIntent(reply)
    \/ \E handler_response \in HandlerResponses : Handle(handler_response)
    \/ AskAndEnhance
    \/ UpdateFromInteraction(TRUE)
    \/ ReturnResponse

SpecTurn == TurnInit /\ [][TurnNext]_vars

\* the pieces appended to the draft's message
AddedPieces ==
    SubSeq(turn_response.message, Len(draft.message) + 1,
           Len(turn_response.message))
\* the lines a generated question / suggestion can be written as
QuestionLines ==
    { ToString(i) \o ". " \o proactive.questions[j] \o "\n" :
        i \in 1..3, j \in DOMAIN proactive.questions }
SuggestionLines ==
    { "* " \o proactive.follow_up_suggestions[j] \o "\n" :
        j \in DOMAIN proactive.follow_up_suggestions }
\* how many members of a sequence lie in a set
CountIn(seq, S) == Cardinality({i \in DOMAIN seq : seq[i] \in S})
\* the keys of a response that a handler sets, the message aside
DraftFields == {"intent", "success", "search_params", "events"}
HandlerNames == {HandlerOf(i) : i \in Intents \cup {<<>>}}

\* C24: once the gate has been asked, either it said yes and the message is
\* the draft's text followed by a separated block holding 1..3 of the
\* generated questions and at most 2 of the suggestions, or it said no and
\* the response is the draft; the other fields of the draft are kept, and
\* the intent was classified once and one handler was run.
C24_AugmentationConcatenates ==
    step = "augmented" =>
        /\ \A f \in DraftFields : turn_response[f] = draft[f]
        /\ CountIn(calls, {"analyze_user_intent"}) = 1
        /\ CountIn(calls, HandlerNames) = 1
        /\ intent = draft.intent
        /\ IF gate.ask
           THEN /\ SubSeq(turn_response.message, 1, Len(draft.message))
                       = draft.message
                /\ SubSeq(AddedPieces, 1, 2) = block_opening
                /\ CountIn(AddedPieces, QuestionLines) \in 1..3
                /\ CountIn(AddedPieces, SuggestionLines) <= 2
                /\ \A i \in DOMAIN AddedPieces :
                       AddedPieces[i] \in
                           QuestionLines \cup SuggestionLines
                               \cup {block_opening[1], block_opening[2],
                                     suggestions_heading}
                /\ turn_response.proactive_questions = proactive
           ELSE turn_response = draft

\* the gate said yes, five suggestions were generated and two were appended
\* after two questions
C24_Witness ==
    /\ step = "augmented"
    /\ gate.ask
    /\ Len(proactive.follow_up_suggestions) = 5
    /\ CountIn(AddedPieces, SuggestionLines) = 2
    /\ CountIn(AddedPieces, QuestionLines) = 2
    /\ draft.message = draft_results

\* the places of a sequence of calls that hold one of the names
PlacesOf(names) == {i \in DOMAIN calls : calls[i] \in names}

\* C26: in a turn without direct search parameters the stage is classified
\* only after the intent has been classified and the handler has returned
\* its draft: the call of the stage classifier is never earlier in the turn
\* than the call of the handler.
C26_StageAfterHandler ==
    \A i \in PlacesOf({"analyze_conversation_stage"}) :
        /\ \E j \in PlacesOf({"analyze_user_intent"}) : j < i
        /\ \E j \in PlacesOf(HandlerNames) : j < i

\* C29: a turn that carries search parameters only performs the direct
\* search and returns its result: its one step leaves every table of the
\* profile store as it was, classifies neither the intent nor the stage,
\* does not ask the gate and generates no question.
C29_DirectSearchLeavesStore ==
    [][ direct_params # NoSearchParams =>
            /\ UNCHANGED <<profiles, interests, preferences, traits, behaviors,
                           feedbacks, nops>>
            /\ UNCHANGED <<stage, intent, gate, proactive, profile_data>>
            /\ calls' = <<"direct_search_events">>
            /\ step' = "returned"
            /\ turn_response' \in HandlerResponses ]_vars

\* a direct search has returned for a session whose profile is stored
C29_Witness ==
    /\ direct_params # NoSearchParams
    /\ step = "returned"
    /\ calls = <<"direct_search_events">>
    /\ profiles # <<>> /\ profiles[1].total_interactions = 4
    /\ interests # <<>>

(***************************************************************************)
(* get_personalized_recommendations: the recommendations computed from the *)
(* stored profile, with their confidence.                                  *)
(***************************************************************************)

\* personality.get(key, 0.5), in tenths
TraitOr(personality, key) ==
    IF Get(personality, key) = None THEN 5 ELSE number_of[Get(personality, key)]

\* the comparisons of the personalized message raise on a trait that is
\* not a number; adventure_seeking is read before either is compared
RecommendationRaises(personality) ==
    \/ Get(personality, "social_level") # None
         /\ ~IsNumber(Get(personality, "social_level"))
    \/ /\ Get(personality, "adventure_seeking") # None
       /\ ~IsNumber(Get(personality, "adventure_seeking"))
       /\ ~(TraitOr(personality, "social_level") > 7)

\* True counts 1 in the sum of the four checks
Count(check) == IF check THEN 1 ELSE 0

\* the dict computed from the profile data of the session
RecommendationsOf(data) ==
    LET mine == data.interests
        prefs == data.activity_preferences
        personality == data.personality_traits
        sorted == sorted_interests(mine)
        data_completeness ==
            ( ( Count(Len(mine) > 0)
                + Count(Cardinality(DOMAIN prefs) > 0)
                + Count(Cardinality(DOMAIN personality) > 0)
                + Count(data.visit_count > 1) ) * 100 ) \div 4
    IN  IF RecommendationRaises(personality)
        THEN Recommendations(<<>>, <<>>, <<>>, "let_me_recommend", 0)
        ELSE Recommendations(
                 [i \in DOMAIN Take(sorted, 3) |-> sorted[i].interest],
                 prefs.preferred_locations, prefs.preferred_times,
                 IF TraitOr(personality, "social_level") > 7 THEN "social"
                 ELSE IF TraitOr(personality, "adventure_seeking") > 7
                      THEN "adventure" ELSE "by_preferences",
                 data_completeness)

get_personalized_recommendations(session_id) ==
    /\ Called("get_personalized_recommendations", session_id, NoArg)
    /\ profiles' = WithProfile(profiles, session_id, Now)
    /\ UNCHANGED <<interests, preferences, traits, behaviors, feedbacks>>
    /\ recommendations' =
           RecommendationsOf(ProfileDataOf(profiles', traits, interests,
                                           preferences, behaviors, session_id))

\* the traits written before a recommendation
RecommendTraits ==
    { [NoData EXCEPT !.personality_traits = [social_level |-> "0.8"]],
      [NoData EXCEPT !.personality_traits = [adventure_seeking |-> "high"]] }

RecommendInit ==
    /\ (StoreIdle \/ KnownProfile)
    /\ StageIdle /\ GateIdle /\ MergeIdle /\ RestIdle

RecommendNext ==
    /\ nops < MaxWrites
    /\ \/ /\ get_personalized_recommendations(TurnSession)
          /\ UNCHANGED <<stage_vars, gate_vars, merge_vars, intent_vars,
                         analysis_vars, update_vars, serving_vars, question_vars,
                         turn_vars, transition, session_vars>>
       \/ /\ \/ \E name \in {"music", "art"}, confidence \in {7, 9} :
                   update_user_interest(TurnSession, name, confidence,
                                        "conversation")
             \/ update_activity_preference(TurnSession, "preferred_locations",
                                           <<"taipei">>, TRUE)
             \/ \E new_data \in RecommendTraits :
                   update_user_profile(TurnSession, new_data, "personality")
          /\ UNCHANGED <<stage_vars, gate_vars, merge_vars, rest_vars>>

SpecRecommend == RecommendInit /\ [][RecommendNext]_vars

\* the four checks the confidence is said to count, on the stored profile
CompletenessChecks(session_id) ==
    LET profile_id == ProfileIdOf(profiles, session_id)
    IN  Count(\E i \in DOMAIN interests : interests[i].profile_id = profile_id)
        + Count(\E i \in DOMAIN preferences :
                    preferences[i].profile_id = profile_id)
        + Count(DOMAIN TraitsOf(traits, profile_id).personality_traits # {})
        + Count(profiles[profile_id].visit_count > 1)

\* C25: the confidence returned for a stored profile is a quarter for each
\* of the four checks that hold (an interest, a recorded preference, a
\* personality trait, visit_count above 1): 0 for a profile with none.
C25_ConfidenceCountsCompleteness ==
    last_op.op = "get_personalized_recommendations" =>
        recommendations.confidence = 25 * CompletenessChecks(last_op.session_id)

\* at most one profile row per session identifier
UniqueProfiles ==
    \A i, j \in DOMAIN profiles :
        profiles[i].session_id = profiles[j].session_id => i = j

\* an operation of the store leaves the profile rows there are, and adds one
\* exactly when its session had none
LazyCreation ==
    nops' = nops + 1 =>
        LET session_id == last_op'.session_id
        IN  /\ \A i \in DOMAIN profiles :
                  i \in DOMAIN profiles'
                      /\ profiles'[i].session_id = profiles[i].session_id
            /\ ProfileIdOf(profiles', session_id) # 0
            /\ Len(profiles') =
                   Len(profiles) + Count(ProfileIdOf(profiles, session_id) = 0)

\* the profile read after the step, as get_user_profile builds it
ReadAfter(session_id) == ProfileDataOf(profiles', traits', interests', preferences',
                                       behaviors', session_id)

\* what the operation just performed wrote is in the profile read next
WrittenIsRead ==
    LET op == last_op'
        read == ReadAfter(op.session_id)
    IN  nops' = nops + 1 =>
          /\ op.op = "update_user_interest" =>
                \E k \in DOMAIN read.interests :
                    read.interests[k].interest = op.arg.interest
          /\ op.op = "update_activity_preference" =>
                \A k \in DOMAIN op.arg.preference_values :
                    Shown(read.activity_preferences[op.arg.preference_type],
                          op.arg.preference_values[k]) >= 1
          /\ (op.op = "analyze_user_from_conversation"
                /\ behaviors' # behaviors) =>
                Len(read.recent_behaviors) =
                    Len(_get_recent_behaviors(behaviors, ProfileIdOf(profiles',
                                                                  op.session_id))) + 1

\* C27: the profile of a session is created by the first operation of the
\* store that names the session, there is never more than one profile per
\* session identifier, and what an operation wrote for a session is in the
\* profile that a later read of the session returns.
C27_LazyUniqueProfiles ==
    [][ UniqueProfiles' /\ LazyCreation /\ WrittenIsRead ]_vars

(***************************************************************************)
(* ConversationStageService.should_transition_stage: the transition rule   *)
(* of the current stage, then the triggers that end the conversation.      *)
(***************************************************************************)

transition_rules ==
    [
      \* 想找 需要 喜歡 偏好 活動
      opening |->
          [ to |-> "exploring",
            triggers |->
                { <<"u60f3", "u627e">>,
                  <<"u9700", "u8981">>,
                  <<"u559c", "u6b61">>,
                  <<"u504f", "u597d">>,
                  <<"u6d3b", "u52d5">> } ],
      \* 具體 確認 是的 對 沒錯
      exploring |->
          [ to |-> "clarifying",
            triggers |->
                { <<"u5177", "u9ad4">>,
                  <<"u78ba", "u8a8d">>,
                  <<"u662f", "u7684">>,
                  <<"u5c0d">>,
                  <<"u6c92", "u932f">> } ],
      \* 搜尋 查找 找 開始 好的
      clarifying |->
          [ to |-> "searching",
            triggers |->
                { <<"u641c", "u5c0b">>,
                  <<"u67e5", "u627e">>,
                  <<"u627e">>,
                  <<"u958b", "u59cb">>,
                  <<"u597d", "u7684">> } ],
      \* 結果 推薦 建議 看看
      searching |->
          [ to |-> "recommending",
            triggers |->
                { <<"u7d50", "u679c">>,
                  <<"u63a8", "u85a6">>,
                  <<"u5efa", "u8b70">>,
                  <<"u770b", "u770b">> } ],
      \* 考慮 想想 不錯 感興趣 喜歡
      recommending |->
          [ to |-> "deciding",
            triggers |->
                { <<"u8003", "u616e">>,
                  <<"u60f3", "u60f3">>,
                  <<"u4e0d", "u932f">>,
                  <<"u611f", "u8208", "u8da3">>,
                  <<"u559c", "u6b61">> } ],
      \* 決定 選擇 謝謝 夠了 不用了
      deciding |->
          [ to |-> "closing",
            triggers |->
                { <<"u6c7a", "u5b9a">>,
                  <<"u9078", "u64c7">>,
                  <<"u8b1d", "u8b1d">>,
                  <<"u5920", "u4e86">>,
                  <<"u4e0d", "u7528", "u4e86">> } ] ]

\* 再見 謝謝 結束 bye 不用了
closing_triggers ==
    { <<"u518d", "u898b">>,
      <<"u8b1d", "u8b1d">>,
      <<"u7d50", "u675f">>,
      <<"b", "y", "e">>,
      <<"u4e0d", "u7528", "u4e86">> }

\* mutation: the rule of the opening stage leads to clarifying
TransitionRulesSkipping ==
    [
      \* 想找 需要 喜歡 偏好 活動
      opening |->
          [ to |-> "clarifying",
            triggers |->
                { <<"u60f3", "u627e">>,
                  <<"u9700", "u8981">>,
                  <<"u559c", "u6b61">>,
                  <<"u504f", "u597d">>,
                  <<"u6d3b", "u52d5">> } ],
      \* 具體 確認 是的 對 沒錯
      exploring |->
          [ to |-> "clarifying",
            triggers |->
                { <<"u5177", "u9ad4">>,
                  <<"u78ba", "u8a8d">>,
                  <<"u662f", "u7684">>,
                  <<"u5c0d">>,
                  <<"u6c92", "u932f">> } ],
      \* 搜尋 查找 找 開始 好的
      clarifying |->
          [ to |-> "searching",
            triggers |->
                { <<"u641c", "u5c0b">>,
                  <<"u67e5", "u627e">>,
                  <<"u627e">>,
                  <<"u958b", "u59cb">>,
                  <<"u597d", "u7684">> } ],
      \* 結果 推薦 建議 看看
      searching |->
          [ to |-> "recommending",
            triggers |->
                { <<"u7d50", "u679c">>,
                  <<"u63a8", "u85a6">>,
                  <<"u5efa", "u8b70">>,
                  <<"u770b", "u770b">> } ],
      \* 考慮 想想 不錯 感興趣 喜歡
      recommending |->
          [ to |-> "deciding",
            triggers |->
                { <<"u8003", "u616e">>,
                  <<"u60f3", "u60f3">>,
                  <<"u4e0d", "u932f">>,
                  <<"u611f", "u8208", "u8da3">>,
                  <<"u559c", "u6b61">> } ],
      \* 決定 選擇 謝謝 夠了 不用了
      deciding |->
          [ to |-> "closing",
            triggers |->
                { <<"u6c7a", "u5b9a">>,
                  <<"u9078", "u64c7">>,
                  <<"u8b1d", "u8b1d">>,
                  <<"u5920", "u4e86">>,
                  <<"u4e0d", "u7528", "u4e86">> } ] ]

ShouldTransitionSkipping(current_stage, message) ==
    LET user_message_lower == Lower(message)
    IN  IF /\ current_stage \in DOMAIN TransitionRulesSkipping
           /\ AnyIn(TransitionRulesSkipping[current_stage].triggers,
                    user_message_lower)
        THEN Transition(current_stage, message, TRUE,
                        TransitionRulesSkipping[current_stage].to)
        ELSE IF AnyIn(closing_triggers, user_message_lower)
        THEN Transition(current_stage, message, TRUE, "closing")
        ELSE Transition(current_stage, message, FALSE, current_stage)

\* bot_response and context are not read
should_transition_stage(current_stage, message) ==
    LET user_message_lower == Lower(message)
    IN  IF /\ current_stage \in DOMAIN transition_rules
           /\ AnyIn(transition_rules[current_stage].triggers, user_message_lower)
        THEN Transition(current_stage, message, TRUE,
                        transition_rules[current_stage].to)
        ELSE IF AnyIn(closing_triggers, user_message_lower)
        THEN Transition(current_stage, message, TRUE, "closing")
        ELSE Transition(current_stage, message, FALSE, current_stage)

\* 我想找活動
heard_find_event == <<"u6211", "u60f3", "u627e", "u6d3b", "u52d5">>
\* 是的沒錯
heard_yes_right == <<"u662f", "u7684", "u6c92", "u932f">>
\* 好的開始找
heard_ok_start == <<"u597d", "u7684", "u958b", "u59cb", "u627e">>
\* 看看結果
heard_see_results == <<"u770b", "u770b", "u7d50", "u679c">>
\* 感覺不錯
heard_not_bad == <<"u611f", "u89ba", "u4e0d", "u932f">>
\* 謝謝
heard_thanks == <<"u8b1d", "u8b1d">>
\* Bye
heard_Bye == <<"B", "y", "e">>
\* 嗯
heard_hm == <<"u55ef">>
\* 再見
heard_goodbye == <<"u518d", "u898b">>
\* 想想再決定
heard_think_decide == <<"u60f3", "u60f3", "u518d", "u6c7a", "u5b9a">>
\* 謝謝我喜歡
heard_thanks_like == <<"u8b1d", "u8b1d", "u6211", "u559c", "u6b61">>
\* 夠了
heard_enough == <<"u5920", "u4e86">>
\* 確認
heard_confirm == <<"u78ba", "u8a8d">>
\* 給我建議
heard_suggest == <<"u7d66", "u6211", "u5efa", "u8b70">>
\* 搜尋
heard_search == <<"u641c", "u5c0b">>
\* 結束吧
heard_end == <<"u7d50", "u675f", "u5427">>

TransitionMessages ==
    { heard_find_event,
      heard_yes_right,
      heard_ok_start,
      heard_see_results,
      heard_not_bad,
      heard_thanks,
      heard_Bye,
      heard_hm,
      heard_goodbye,
      heard_think_decide,
      heard_thanks_like,
      heard_enough,
      heard_confirm,
      heard_suggest,
      heard_search,
      heard_end }

\* a conversation starts in any stage, or in a value that is no stage
TransitionInit ==
    /\ StageIdle /\ GateIdle /\ StoreIdle /\ MergeIdle
    /\ IntentIdle /\ AnalysisIdle /\ UpdateIdle /\ ServingIdle
    /\ QuestionIdle /\ TurnIdle
    /\ recommendations = NoRecommendations /\ SessionIdle
    /\ \E current_stage \in GenerationStages :
           transition = Transition(None, <<>>, FALSE, current_stage)

\* the stage returned becomes the current stage of the next call
ProposeTransition(message) ==
    /\ transition' = should_transition_stage(transition.stage, message)
    /\ UNCHANGED <<stage_vars, gate_vars, store_vars, merge_vars, intent_vars,
                   analysis_vars, update_vars, serving_vars, question_vars,
                   turn_vars, recommendations, session_vars>>

TransitionNext == \E message \in TransitionMessages : ProposeTransition(message)

SpecTransition == TransitionInit /\ [][TransitionNext]_vars

\* the chain of the stages, in order
stage_chain ==
    <<"opening", "exploring", "clarifying", "searching", "recommending",
      "deciding", "closing">>
PlaceOf(given_stage) ==
    IF \E i \in DOMAIN stage_chain : stage_chain[i] = given_stage
    THEN CHOOSE i \in DOMAIN stage_chain : stage_chain[i] = given_stage
    ELSE 0

\* C28: the stage proposed for a change is the one right after the current
\* stage in the chain, or closing; from closing and from a value that is
\* no stage only closing is proposed; when no change is proposed the stage
\* returned is the current one.
C28_ForwardOnly ==
    transition.current_stage # None =>
        LET place == PlaceOf(transition.current_stage)
        IN  /\ transition.should =>
                  \/ transition.stage = "closing"
                  \/ /\ place \in 1..6
                     /\ transition.stage = stage_chain[place + 1]
            /\ ~transition.should =>
                  transition.stage = transition.current_stage

\* a message holding a trigger of the opening rule and a closing trigger
\* moved the conversation from opening to exploring
C28_Witness ==
    /\ transition.current_stage = "opening"
    /\ AnyIn(closing_triggers, Lower(transition.user_message))
    /\ transition.should
    /\ transition.stage = "exploring"

(***************************************************************************)
(* Chat sessions: get_or_create_session and add_message_to_session of      *)
(* src/database.py, as the chat endpoint calls them.  Neither suspends, so *)
(* each is one step of the event loop.                                     *)
(***************************************************************************)

\* the sessions stored at the start, and the last logical time at which a
\* session operation is followed
MaxSessions == 2
MaxSessionTime == 5

\* a row of chat_sessions; created_at and updated_at are logical times
ChatSession(session_id, ip_address, message_count, created_at, updated_at) ==
    [ session_id |-> session_id, ip_address |-> ip_address,
      message_count |-> message_count, created_at |-> created_at,
      updated_at |-> updated_at ]

\* str(uuid.uuid4()): an identifier no stored session has
FreshSessionId(rows) == "c" \o ToString(Len(rows) + 1)

\* the time of a session operation: later than every time stored
SessionNow ==
    1 + MaxOf({0} \cup {chat_sessions[i].created_at : i \in DOMAIN chat_sessions}
                  \cup {chat_sessions[i].updated_at : i \in DOMAIN chat_sessions})

\* db.query(ChatSession).filter(session_id == ...).first(): its row id, or 0
SessionIdOf(rows, session_id) ==
    LET found == {i \in DOMAIN rows : rows[i].session_id = session_id}
    IN  IF found = {} THEN 0 ELSE MinOf(found)

\* filter(ip_address == ..., message_count < 20).order_by(created_at.desc())
\* .first(): its row id, or 0
LatestUnfilled(rows, ip_address) ==
    LET open == {i \in DOMAIN rows : /\ rows[i].ip_address = ip_address
                                     /\ rows[i].message_count < 20}
    IN  IF open = {} THEN 0
        ELSE CHOOSE i \in open : \A j \in open : rows[j].created_at <= rows[i].created_at

\* mutation: a requested session is returned while it has 20 messages or less
GetOrCreateSessionAtTwenty(ip_address, session_id) ==
    LET requested == IF session_id = None THEN 0
                     ELSE SessionIdOf(chat_sessions, session_id)
        latest_session == LatestUnfilled(chat_sessions, ip_address)
    IN  IF requested # 0 /\ chat_sessions[requested].message_count <= 20
        THEN /\ session_call' = SessionCall("get_or_create_session", ip_address,
                                            session_id, requested)
             /\ UNCHANGED <<chat_sessions, chat_messages>>
        ELSE IF latest_session # 0
        THEN /\ session_call' = SessionCall("get_or_create_session", ip_address,
                                            session_id, latest_session)
             /\ UNCHANGED <<chat_sessions, chat_messages>>
        ELSE /\ chat_sessions' =
                    Append(chat_sessions,
                           ChatSession(FreshSessionId(chat_sessions), ip_address, 0,
                                       SessionNow, SessionNow))
             /\ session_call' = SessionCall("get_or_create_session", ip_address,
                                            session_id, Len(chat_sessions) + 1)
             /\ UNCHANGED chat_messages

get_or_create_session(ip_address, session_id) ==
    LET requested == IF session_id = None THEN 0
                     ELSE SessionIdOf(chat_sessions, session_id)
        latest_session == LatestUnfilled(chat_sessions, ip_address)
    IN  IF requested # 0 /\ chat_sessions[requested].message_count < 20
        THEN /\ session_call' = SessionCall("get_or_create_session", ip_address,
                                            session_id, requested)
             /\ UNCHANGED <<chat_sessions, chat_messages>>
        ELSE IF latest_session # 0
        THEN /\ session_call' = SessionCall("get_or_create_session", ip_address,
                                            session_id, latest_session)
             /\ UNCHANGED <<chat_sessions, chat_messages>>
        ELSE /\ chat_sessions' =
                    Append(chat_sessions,
                           ChatSession(FreshSessionId(chat_sessions), ip_address, 0,
                                       SessionNow, SessionNow))
             /\ session_call' = SessionCall("get_or_create_session", ip_address,
                                            session_id, Len(chat_sessions) + 1)
             /\ UNCHANGED chat_messages

\* `session` is the row a request holds, by its id
add_message_to_session(session, role) ==
    /\ chat_messages' =
           Append(chat_messages, [ session_id |-> chat_sessions[session].session_id,
                                   role |-> role, created_at |-> SessionNow ])
    /\ chat_sessions' =
           [ chat_sessions EXCEPT ![session].message_count = @ + 1,
                                  ![session].updated_at = SessionNow ]
    /\ session_call' = SessionCall("add_message_to_session",
                                   chat_sessions[session].ip_address,
                                   chat_sessions[session].session_id, session)

\* the addresses of the clients and the identifiers they send: none, those
\* of the stored sessions, one that no session has
ClientAddresses == {"ip1", "ip2"}
RequestedIds == {None, "c1", "c2", "c9"}
\* the message counts of the stored sessions
StoredCounts == {18, 19, 20}

\* the messages of the stored sessions, user and assistant in turn
StoredMessages(rows) ==
    LET RECURSIVE Of(_)
        Of(i) == IF i = 0 THEN <<>>
                 ELSE Of(i - 1) \o
                      [k \in 1..rows[i].message_count |->
                          [ session_id |-> rows[i].session_id,
                            role |-> IF k % 2 = 1 THEN "user" ELSE "assistant",
                            created_at |-> rows[i].created_at ]]
    IN  Of(Len(rows))

SessionsInit ==
    /\ StageIdle /\ GateIdle /\ StoreIdle /\ MergeIdle
    /\ IntentIdle /\ AnalysisIdle /\ UpdateIdle /\ ServingIdle
    /\ QuestionIdle /\ TurnIdle
    /\ recommendations = NoRecommendations /\ transition = NoTransition
    /\ session_call = NoSessionCall
    /\ \E n \in 0..MaxSessions :
         \E ips \in [1..n -> ClientAddresses], counts \in [1..n -> StoredCounts] :
            /\ chat_sessions =
                   [i \in 1..n |-> ChatSession(FreshSessionId(SubSeq(ips, 1, i - 1)),
                                               ips[i], counts[i], i, i)]
            /\ chat_messages = StoredMessages(chat_sessions)

SessionsNext ==
    /\ SessionNow <= MaxSessionTime
    /\ \/ \E ip_address \in ClientAddresses, session_id \in RequestedIds :
              get_or_create_session(ip_address, session_id)
       \/ \E session \in DOMAIN chat_sessions, role \in {"user", "assistant"} :
              add_message_to_session(session, role)
    /\ UNCHANGED <<stage_vars, gate_vars, store_vars, merge_vars, intent_vars,
                   analysis_vars, update_vars, serving_vars, question_vars,
                   turn_vars, recommendations, transition>>

SpecSessions == SessionsInit /\ [][SessionsNext]_vars

\* the sessions of an address that have fewer than 20 messages
Unfilled(ip_address) ==
    {i \in DOMAIN chat_sessions : /\ chat_sessions[i].ip_address = ip_address
                                  /\ chat_sessions[i].message_count < 20}

\* C30: get_or_create_session returns a session with fewer than 20
\* messages: the requested one if it is stored with fewer than 20, else the
\* newest session of the address with fewer than 20, else a new session
\* with an identifier no session has and message_count 0, created only in
\* that case; add_message_to_session adds 1 to the count of its session.
C30_SessionRollover ==
    [][ LET call == session_call'
            returned == call.returned
            requested == IF call.session_id = None THEN 0
                         ELSE SessionIdOf(chat_sessions, call.session_id)
        IN  /\ call.op = "get_or_create_session" =>
                /\ chat_sessions'[returned].message_count < 20
                /\ IF requested # 0 /\ chat_sessions[requested].message_count < 20
                   THEN returned = requested /\ chat_sessions' = chat_sessions
                   ELSE IF Unfilled(call.ip_address) # {}
                   THEN /\ returned \in Unfilled(call.ip_address)
                        /\ \A j \in Unfilled(call.ip_address) :
                               chat_sessions[j].created_at
                                   <= chat_sessions[returned].created_at
                        /\ chat_sessions' = chat_sessions
                   ELSE /\ chat_sessions' = Append(chat_sessions,
                                                   chat_sessions'[returned])
                        /\ chat_sessions'[returned].message_count = 0
                        /\ chat_sessions'[returned].ip_address = call.ip_address
                        /\ \A i \in DOMAIN chat_sessions :
                               chat_sessions[i].session_id
                                   # chat_sessions'[returned].session_id
            /\ (call.op = "add_message_to_session"
                  /\ chat_messages' # chat_messages) =>
                /\ Len(chat_messages') = Len(chat_messages) + 1
                /\ DOMAIN chat_sessions' = DOMAIN chat_sessions
                /\ \A i \in DOMAIN chat_sessions :
                       chat_sessions'[i].message_count =
                           chat_sessions[i].message_count + Count(i = returned)
      ]_vars

\* the requested session was stored with 20 messages or more, its address
\* had no other session to continue, and a new session was returned
C30_Witness ==
    /\ session_call.op = "get_or_create_session"
    /\ session_call.session_id # None
    /\ LET requested == SessionIdOf(chat_sessions, session_call.session_id)
       IN  /\ requested # 0
           /\ chat_sessions[requested].message_count >= 20
           /\ session_call.returned # requested
           /\ session_call.returned = Len(chat_sessions)
           /\ chat_sessions[session_call.returned].message_count = 0
           /\ chat_sessions[session_call.returned].created_at
                  > chat_sessions[requested].updated_at

====
